---- MODULE Spec2Model ----
(***************************************************************************)
(* A model of simulariumio's AgentData: the dense trajectory model, its    *)
(* type registry, the merge of two trajectories (append_agents) and the    *)
(* packed-buffer codec (_get_buffer_data_dimensions, from_buffer_data)     *)
(* and its deep copy.                                                      *)
(*                                                                         *)
(* Conventions.  numpy arrays are sequences of rows; the code's index k    *)
(* is the model's index k + 1.  Scalars are naturals (the code's floats    *)
(* hold whole numbers in every case modelled).  An Optional value is a     *)
(* sequence of length at most one: None is <<>>, a present value v is      *)
(* <<v>>.  The subpoints array carries its shape, because numpy's          *)
(* concatenate compares shapes.                                            *)
(***************************************************************************)
EXTENDS Integers, Sequences, FiniteSets, TLC

VARIABLES
    pc,           \* the call that runs next ("done" after the last one)
    self,         \* the AgentData an operation receives / the codec's input model
    new_agents,   \* the second operand of append_agents
    buffer_data,  \* Optional: the simularium JSON dict with the packed buffers
    result,       \* outcome of the last call: op, status, error, value
    pre,          \* the operands as they were when the last call started
    plan,         \* Optional: the layout a synthesized buffer was written from
    args,         \* arguments of the registry's static methods (type_names,
                  \* type_ids (Optional), type_mapping), or the filter that
                  \* was constructed and its parameter
    heap,         \* the arrays and lists objects refer to, by address
    copied,       \* Optional: the object copy.deepcopy(self) returned
    cameras       \* the CameraData instances constructed so far

vars == <<pc, self, new_agents, buffer_data, result, pre, plan, args, heap, copied, cameras>>

\* what the calls on an AgentData or a buffer never touch
others == <<args, heap, copied, cameras>>

----------------------------------------------------------------------------
(* Bounds of the model *)

MaxSteps == 2
MaxAgents == 2
MaxUid == 1
MaxSubpoints == 1

----------------------------------------------------------------------------
(* Generic helpers *)

None == <<>>
Some(v) == <<v>>
IsNone(o) == o = <<>>
Get(o) == o[1]

Range(s) == {s[k] : k \in DOMAIN s}

Max(a, b) == IF a > b THEN a ELSE b

RECURSIVE Flatten(_)
Flatten(ss) ==
    IF ss = <<>> THEN <<>> ELSE Head(ss) \o Flatten(Tail(ss))

\* np.amax over a non-empty 1-D array
Amax(a) == CHOOSE m \in Range(a) : \A x \in Range(a) : x <= m

\* str(int): decimal digits
Digit == <<"0", "1", "2", "3", "4", "5", "6", "7", "8", "9">>

RECURSIVE Str(_)
Str(i) ==
    IF i < 10 THEN Digit[i + 1] ELSE Str(i \div 10) \o Digit[(i % 10) + 1]

\* the keys of a Python dict modelled as a function
Keys(d) == DOMAIN d
EmptyDict == [k \in {} |-> 0]
DictPut(d, k, v) == (k :> v) @@ d

----------------------------------------------------------------------------
(* numpy arrays *)

\* length of the agent axis of a [timesteps, agents, ...] array
AgentAxis(a) == IF Len(a) = 0 THEN 0 ELSE Len(a[1])

Zeros2(steps, agents) == [t \in 1..steps |-> [n \in 1..agents |-> 0]]
Ones2(steps, agents) == [t \in 1..steps |-> [n \in 1..agents |-> 1]]
Zeros3(steps, agents) == [t \in 1..steps |-> [n \in 1..agents |-> <<0, 0, 0>>]]
Zeros4(steps, agents, points) ==
    [t \in 1..steps |-> [n \in 1..agents |-> [p \in 1..points |-> <<0, 0, 0>>]]]

\* an array that keeps its shape
NdArray(shape, data) == [shape |-> shape, data |-> data]

\* np.concatenate((a, b), axis=1) on arrays without a shape mismatch
Concatenate1(a, b) == [t \in 1..Len(a) |-> a[t] \o b[t]]

\* np.concatenate((a, b), axis=1) raises ValueError unless the arrays have the
\* same number of dimensions and agree on every axis but axis 1
CanConcatenate1(a, b) ==
    /\ Len(a.shape) = Len(b.shape)
    /\ \A k \in (1..Len(a.shape)) \ {2} : a.shape[k] = b.shape[k]

ConcatenateNd1(a, b) ==
    NdArray([a.shape EXCEPT ![2] = a.shape[2] + b.shape[2]],
            Concatenate1(a.data, b.data))

\* np.unique(a) of a 2-D array, as the set of its values
Unique2(a) == UNION {Range(a[t]) : t \in 1..Len(a)}

----------------------------------------------------------------------------
(* Program constants *)

\* VIZ_TYPE.DEFAULT and VIZ_TYPE.FIBER
VIZ_TYPE_DEFAULT == 1000
VIZ_TYPE_FIBER == 1001

----------------------------------------------------------------------------
(* AgentData.__init__ *)

\* rotations, n_subpoints, subpoints and type_ids are Optional arguments.
\* A missing n_subpoints and a missing subpoints both become
\* np.zeros_like(radii), a 2-D array.
AgentData(times, n_agents, viz_types, unique_ids, types, positions, radii, rotations, n_subpoints, subpoints, draw_fiber_points, type_ids) ==
    [ times |-> times,
      n_agents |-> n_agents,
      viz_types |-> viz_types,
      unique_ids |-> unique_ids,
      types |-> types,
      positions |-> positions,
      radii |-> radii,
      rotations |->
          IF IsNone(rotations)
          THEN Zeros3(Len(positions), AgentAxis(positions))
          ELSE Get(rotations),
      n_subpoints |->
          IF IsNone(n_subpoints)
          THEN Zeros2(Len(radii), AgentAxis(radii))
          ELSE Get(n_subpoints),
      subpoints |->
          IF IsNone(subpoints)
          THEN NdArray(<<Len(radii), AgentAxis(radii)>>,
                       Zeros2(Len(radii), AgentAxis(radii)))
          ELSE Get(subpoints),
      draw_fiber_points |-> draw_fiber_points,
      type_ids |-> type_ids,
      type_mapping |-> None ]

----------------------------------------------------------------------------
(* AgentData.get_type_ids_and_mapping *)

\* the (t, n) pairs in the order of the two nested loops
\* the slots visited agent index first: every timestep's slot 0, then every
\* timestep's slot 1, ...
TypeSlotsAgentMajor(type_names) ==
    LET longest == IF Len(type_names) = 0 THEN 0
                   ELSE Amax([t \in 1..Len(type_names) |-> Len(type_names[t])])
    IN  Flatten([n \in 1..longest |->
            SelectSeq([t \in 1..Len(type_names) |-> <<t, n>>],
                      LAMBDA s : n <= Len(type_names[s[1]]))])

TypeSlots(type_names) ==
    Flatten([t \in 1..Len(type_names) |->
                [n \in 1..Len(type_names[t]) |-> <<t, n>>]])

\* an iteration that registers the empty name like any other
TypeStepKeepEmpty(type_names, use_existing_ids, st, t, n) ==
    LET tn == type_names[t][n]
        tid == IF use_existing_ids THEN st.type_ids[t][n] ELSE st.last_tid
        st1 ==
            IF tn \notin Keys(st.type_id_mapping)
            THEN [st EXCEPT
                    !.last_tid = IF use_existing_ids THEN @ ELSE @ + 1,
                    !.type_id_mapping = DictPut(@, tn, tid),
                    !.type_name_mapping = DictPut(@, Str(tid), [name |-> tn])]
            ELSE st
    IN  IF use_existing_ids THEN st1
        ELSE [st1 EXCEPT !.type_ids[t][n] = st1.type_id_mapping[tn]]

\* a counter that is never advanced
SameTid(last_tid) == last_tid

\* last_tid += 1
NextTid(last_tid) == last_tid + 1

\* one iteration of the inner loop body at slot (t, n)
TypeStep(type_names, use_existing_ids, st, t, n) ==
    LET tn == type_names[t][n] IN
    IF tn = "" THEN st
    ELSE
        LET tid == IF use_existing_ids THEN st.type_ids[t][n] ELSE st.last_tid
            st1 ==
                IF tn \notin Keys(st.type_id_mapping)
                THEN [st EXCEPT
                        !.last_tid =
                            IF use_existing_ids THEN @ ELSE NextTid(@),
                        !.type_id_mapping = DictPut(@, tn, tid),
                        !.type_name_mapping = DictPut(@, Str(tid), [name |-> tn])]
                ELSE st
        IN  IF use_existing_ids THEN st1
            ELSE [st1 EXCEPT !.type_ids[t][n] = st1.type_id_mapping[tn]]

RECURSIVE TypeLoop(_, _, _, _)
TypeLoop(type_names, slots, use_existing_ids, st) ==
    IF slots = <<>> THEN st
    ELSE TypeLoop(type_names, Tail(slots), use_existing_ids,
                  TypeStep(type_names, use_existing_ids, st,
                           Head(slots)[1], Head(slots)[2]))

\* type_ids is Optional; the result is the pair (type_ids, type_name_mapping)
get_type_ids_and_mapping(type_names, type_ids) ==
    LET total_steps == Len(type_names)
        max_agents ==
            IF total_steps = 0 THEN 0
            ELSE Amax([t \in 1..total_steps |-> Len(type_names[t])])
        use_existing_ids == ~IsNone(type_ids)
        ids0 == IF IsNone(type_ids) THEN Zeros2(total_steps, max_agents)
                ELSE Get(type_ids)
        st == TypeLoop(type_names, TypeSlots(type_names), use_existing_ids,
                       [ type_ids |-> ids0,
                         type_id_mapping |-> EmptyDict,
                         type_name_mapping |-> EmptyDict,
                         last_tid |-> 0 ])
    IN  [type_ids |-> st.type_ids, type_name_mapping |-> st.type_name_mapping]

----------------------------------------------------------------------------
(* AgentData.append_agents *)

\* a DataError whose message names the existing count only
DataErrorOneCount(new_total_steps, total_steps) ==
    [type |-> "DataError", args |-> <<total_steps>>]

DataError(new_total_steps, total_steps) ==
    [type |-> "DataError", args |-> <<new_total_steps, total_steps>>]
ValueError == [type |-> "ValueError", args |-> <<>>]
NoError == [type |-> "", args |-> <<>>]

\* while uid in used_uids: uid += 1
RECURSIVE ProbeUid(_, _)
ProbeUid(uid, used_uids) ==
    IF uid \in used_uids THEN ProbeUid(uid + 1, used_uids) ELSE uid

\* the new_uids dict and used_uids list after the inner loop over the valid
\* incoming slots of one timestep (raws); st = [new_uids, used_uids]
RECURSIVE RemapLoop(_, _)
RemapLoop(raws, st) ==
    IF raws = <<>> THEN st
    ELSE
        LET raw_uid == Head(raws) IN
        IF raw_uid \in Keys(st.new_uids) THEN RemapLoop(Tail(raws), st)
        ELSE
            LET uid == ProbeUid(raw_uid, st.used_uids) IN
            RemapLoop(Tail(raws),
                      [ new_uids |-> DictPut(st.new_uids, raw_uid, uid),
                        used_uids |-> st.used_uids \cup {uid} ])

\* used_uids starting empty: base's unique IDs forgotten
UsedUidsNone(unique_ids) == {}

\* used_uids = list(np.unique(self.unique_ids)): every slot of the array
UsedUids(unique_ids) == Unique2(unique_ids)

\* new_uids and used_uids after the outer loop has run timesteps 1..t
RECURSIVE RemapUpTo(_, _, _)
RemapUpTo(base, new, t) ==
    IF t = 0
    THEN [new_uids |-> EmptyDict, used_uids |-> UsedUids(base.unique_ids)]
    ELSE RemapLoop(SubSeq(new.unique_ids[t], 1, new.n_agents[t]),
                   RemapUpTo(base, new, t - 1))

\* new_uids created anew inside the loop over the timesteps
NewUidsAtFresh(base, new, t) ==
    RemapLoop(SubSeq(new.unique_ids[t], 1, new.n_agents[t]),
              [new_uids |-> EmptyDict,
               used_uids |-> RemapUpTo(base, new, t - 1).used_uids]).new_uids

\* the new_uids dict the writes of timestep t read
NewUidsAt(base, new, t) == RemapUpTo(base, new, t).new_uids

\* the two inner loops in the other order: incoming's values first
MergedRowIncomingFirst(base_row, n_base, new_row, n_new, max_agents) ==
    [i \in 1..max_agents |->
        IF i <= n_new THEN new_row[i]
        ELSE IF i <= n_new + n_base THEN base_row[i - n_new]
        ELSE 0]

\* row t of an array filled by the two inner loops: base's first n_agents[t]
\* values, then one value per valid incoming slot, zeros up to max_agents
MergedRow(base_row, n_base, new_row, n_new, max_agents) ==
    [i \in 1..max_agents |->
        IF i <= n_base THEN base_row[i]
        ELSE IF i <= n_base + n_new THEN new_row[i - n_base]
        ELSE 0]

\* the dense arrays after lines 372-382
ConcatenatedArrays(base, new) ==
    [base EXCEPT
        !.viz_types = Concatenate1(base.viz_types, new.viz_types),
        !.positions = Concatenate1(base.positions, new.positions),
        !.rotations = Concatenate1(base.rotations, new.rotations),
        !.radii = Concatenate1(base.radii, new.radii),
        !.n_subpoints = Concatenate1(base.n_subpoints, new.n_subpoints)]

\* the type IDs an operand carries into the loops (lines 384-389)
OperandTypeIds(a) ==
    IF IsNone(a.type_ids)
    THEN Some(get_type_ids_and_mapping(a.types, None).type_ids)
    ELSE a.type_ids

\* a merge that keeps the name table the receiver had
KeepTypeMapping(a) == a

\* self.type_mapping = None
InvalidateTypeMapping(a) == [a EXCEPT !.type_mapping = None]

\* the result is [self, new_agents, error]: both objects after the call
append_agents(base, new) ==
    LET total_steps == Len(base.times)
        new_total_steps == Len(new.times)
    IN
    IF new_total_steps # total_steps
    THEN [self |-> base, new_agents |-> new,
          error |-> DataError(new_total_steps, total_steps)]
    ELSE IF total_steps = 0
    THEN \* np.amax of an empty array
         [self |-> base, new_agents |-> new, error |-> ValueError]
    ELSE
    LET max_agents == Amax(base.n_agents) + Amax(new.n_agents)
        n_agents == [t \in 1..total_steps |-> base.n_agents[t] + new.n_agents[t]]
        s1 == ConcatenatedArrays(base, new)
    IN
    IF ~CanConcatenate1(base.subpoints, new.subpoints)
    THEN [self |-> s1, new_agents |-> new, error |-> ValueError]
    ELSE
    LET self_type_ids == OperandTypeIds(base)
        new_type_ids == OperandTypeIds(new)
        unique_ids ==
            [t \in 1..total_steps |->
                MergedRow(base.unique_ids[t], base.n_agents[t],
                          [n \in 1..new.n_agents[t] |->
                              NewUidsAt(base, new, t)[new.unique_ids[t][n]]],
                          new.n_agents[t], max_agents)]
        type_ids ==
            [t \in 1..total_steps |->
                MergedRow(Get(self_type_ids)[t], base.n_agents[t],
                          Get(new_type_ids)[t], new.n_agents[t], max_agents)]
        types ==
            [t \in 1..total_steps |->
                SubSeq(base.types[t], 1, base.n_agents[t])
                \o SubSeq(new.types[t], 1, new.n_agents[t])]
    IN  [ self |->
            [InvalidateTypeMapping(s1) EXCEPT
                !.subpoints = ConcatenateNd1(base.subpoints, new.subpoints),
                !.unique_ids = unique_ids,
                !.types = types,
                !.type_ids = Some(type_ids),
                !.n_agents = n_agents],
          new_agents |-> [new EXCEPT !.type_ids = new_type_ids],
          error |-> NoError ]

----------------------------------------------------------------------------
(* Operands of a merge *)

TypeNames == {"A", "B"}

SeqsUpTo(S, n) == UNION {[1..k -> S] : k \in 0..n}

Distinct(s) == \A i, j \in DOMAIN s : i # j => s[i] # s[j]

\* The values of the fields append_agents only moves (it never branches on
\* them): one recognisable value per operand, timestep and slot.
SlotPosition(op, t, n) == <<op, t, n>>
SlotRotation(op, t, n) == <<n, op, t>>
SlotRadius(op, t, n) == 10 * op + n
SlotSubpoint(op, t, n, p) == <<op, 10 * t + n, p>>

\* A dense AgentData as a producer hands it over: frames[t] lists the valid
\* agents of timestep t as [uid, type], cap is the length of the agent axis,
\* padding slots hold the defaults (0, radius 1, empty name).  with_ids says
\* whether the producer set type_ids; sp is None when the producer passed
\* no subpoints and Some(S) for a subpoint axis of length S, every valid
\* agent having S points.
MkAgentData(op, frames, cap, with_ids, sp) ==
    LET steps == Len(frames)
        valid(t, n) == n <= Len(frames[t])
        S == IF IsNone(sp) THEN 0 ELSE Get(sp)
        types == [t \in 1..steps |-> [n \in 1..cap |->
                    IF valid(t, n) THEN frames[t][n].type ELSE ""]]
    IN  AgentData(
            [t \in 1..steps |-> t - 1],
            [t \in 1..steps |-> Len(frames[t])],
            [t \in 1..steps |-> [n \in 1..cap |->
                IF ~valid(t, n) THEN 0
                ELSE IF S > 0 THEN VIZ_TYPE_FIBER ELSE VIZ_TYPE_DEFAULT]],
            [t \in 1..steps |-> [n \in 1..cap |->
                IF valid(t, n) THEN frames[t][n].uid ELSE 0]],
            types,
            [t \in 1..steps |-> [n \in 1..cap |->
                IF valid(t, n) THEN SlotPosition(op, t, n) ELSE <<0, 0, 0>>]],
            [t \in 1..steps |-> [n \in 1..cap |->
                IF valid(t, n) THEN SlotRadius(op, t, n) ELSE 1]],
            Some([t \in 1..steps |-> [n \in 1..cap |->
                IF valid(t, n) THEN SlotRotation(op, t, n) ELSE <<0, 0, 0>>]]),
            IF IsNone(sp) THEN None
            ELSE Some([t \in 1..steps |-> [n \in 1..cap |->
                    IF valid(t, n) THEN S ELSE 0]]),
            IF IsNone(sp) THEN None
            ELSE Some(NdArray(<<steps, cap, S, 3>>,
                    [t \in 1..steps |-> [n \in 1..cap |-> [p \in 1..S |->
                        IF valid(t, n) THEN SlotSubpoint(op, t, n, p)
                        ELSE <<0, 0, 0>>]]])),
            FALSE,
            IF with_ids
            THEN Some(get_type_ids_and_mapping(types, None).type_ids)
            ELSE None)

\* A trajectory of a roster of agents: every timestep before `leave` holds
\* the whole roster, every later one the roster without its first agent
\* (leave = steps + 1: nobody leaves).
FramesOf(roster, steps, leave) ==
    [t \in 1..steps |->
        IF t < leave \/ roster = <<>> THEN roster ELSE Tail(roster)]

Trajectories(rosters) ==
    UNION {UNION {
        {FramesOf(roster, steps, leave) : roster \in rosters} :
        leave \in 1..(steps + 1)} : steps \in 1..MaxSteps}

\* Operands that differ in their unique IDs, agent counts and agent-axis
\* lengths (also in their numbers of timesteps): the roster is a sequence
\* of distinct unique IDs, the agent axis is as long as the roster or one
\* longer, and an agent's type follows its unique ID.
TypeOfUid(uid) == IF uid % 2 = 0 THEN "A" ELSE "B"

UidRosters ==
    {[n \in DOMAIN us |-> [uid |-> us[n], type |-> TypeOfUid(us[n])]] :
        us \in {s \in SeqsUpTo(0..MaxUid, MaxAgents) : Distinct(s)}}

LongestFrame(frames) == Amax([t \in 1..Len(frames) |-> Len(frames[t])])

UidOperands(op) ==
    UNION {
        {MkAgentData(op, frames, LongestFrame(frames) + extra, FALSE,
                     Some(MaxSubpoints)) :
            frames \in Trajectories(UidRosters)} :
        extra \in {0, 1}}

\* Operands that differ in their type names and in whether they carry type
\* IDs: a roster of agents with any names that stays as it is, or one agent
\* whose name may change from timestep to timestep.
TypeOperands(op, steps) ==
    UNION {
        {MkAgentData(op,
                     [t \in 1..steps |->
                        [n \in DOMAIN names |-> [uid |-> n, type |-> names[n]]]],
                     Len(names), with_ids, Some(MaxSubpoints)) :
            names \in SeqsUpTo(TypeNames, MaxAgents) \ {<<>>}}
        \cup
        {MkAgentData(op, [t \in 1..steps |-> <<[uid |-> 1, type |-> names[t]]>>],
                     1, with_ids, Some(MaxSubpoints)) :
            names \in [1..steps -> TypeNames]} :
        with_ids \in BOOLEAN}

\* Operands that differ in their subpoints arrays: built without subpoints,
\* or with a subpoint axis of length 0..MaxSubpoints.
SubpointChoices == {None} \cup {Some(S) : S \in 0..MaxSubpoints}

ShapeOperands(op, steps) ==
    UNION {
        {MkAgentData(op, [t \in 1..steps |-> <<[uid |-> op, type |-> "A"]>>],
                     cap, FALSE, sp) :
            sp \in SubpointChoices} :
        cap \in 1..MaxAgents}

\* the model a with the name table of its names set, as a caller that
\* exported it before has left it
WithTypeMapping(a) ==
    [a EXCEPT !.type_mapping =
        Some(get_type_ids_and_mapping(a.types, a.type_ids).type_name_mapping)]

\* Operands whose receiver carries a name table from an earlier export
CachedOperands(steps) ==
    {<<WithTypeMapping(operands[1]), operands[2]>> :
        operands \in TypeOperands(1, steps) \X TypeOperands(2, steps)}

MergeOperands ==
    (UidOperands(1) \X UidOperands(2))
    \cup UNION {CachedOperands(steps) : steps \in 1..MaxSteps}
    \cup UNION {TypeOperands(1, steps) \X TypeOperands(2, steps) :
                    steps \in 1..MaxSteps}
    \cup UNION {ShapeOperands(1, steps) \X ShapeOperands(2, steps) :
                    steps \in 1..MaxSteps}

----------------------------------------------------------------------------
(* The merge as a state machine: one call of append_agents *)

NoResult == [op |-> "", status |-> "", error |-> NoError, value |-> None]

\* what a call starts from, and the call that ran before it
Operands ==
    Some([self |-> self, new_agents |-> new_agents,
          buffer_data |-> buffer_data, args |-> args, heap |-> heap,
          after |-> result.op])

\* no registry call is pending and nothing is allocated
NoOthers ==
    /\ args = [type_names |-> <<>>, type_ids |-> None,
               type_mapping |-> EmptyDict]
    /\ heap = <<>>
    /\ copied = None
    /\ cameras = <<>>

InitMerge ==
    /\ pc = "append_agents"
    /\ \E operands \in MergeOperands :
        /\ self = operands[1]
        /\ new_agents = operands[2]
    /\ buffer_data = None
    /\ result = NoResult
    /\ pre = None
    /\ plan = None
    /\ NoOthers

AppendAgents ==
    /\ pc = "append_agents"
    /\ LET r == append_agents(self, new_agents) IN
        /\ self' = r.self
        /\ new_agents' = r.new_agents
        /\ result' = [op |-> "append_agents",
                      status |-> IF r.error = NoError THEN "ok" ELSE "raised",
                      error |-> r.error,
                      value |-> None]
    /\ pre' = Operands
    /\ pc' = "done"
    /\ UNCHANGED <<buffer_data, plan, others>>

NextMerge == AppendAgents

SpecMerge == InitMerge /\ [][NextMerge]_vars

----------------------------------------------------------------------------
(* Properties of the merge *)

Called(op) == result.op = op
Merged == Called("append_agents") /\ result.status = "ok"
Base0 == Get(pre).self
Incoming0 == Get(pre).new_agents

Steps(a) == 1..Len(a.times)
ValidSlots(a) == {<<t, n>> \in Steps(a) \X (1..MaxAgents + MaxAgents + 2) :
                    n <= a.n_agents[t]}

\* the slot of the merged result that holds incoming's agent n of timestep t
IncomingSlot(t, n) == Base0.n_agents[t] + n

UniquePerTimestep(a) ==
    \A t \in Steps(a) : \A n, m \in 1..a.n_agents[t] :
        n # m => a.unique_ids[t][n] # a.unique_ids[t][m]

\* C2: after a successful merge n_agents[t] is the sum of both operands'
\* counts and the slot base.n_agents[t] + n holds, in every dense array,
\* incoming's values for its agent n.
C2_IncomingSlotsAligned ==
    Merged =>
        \A t \in Steps(self) :
            /\ self.n_agents[t] = Base0.n_agents[t] + Incoming0.n_agents[t]
            /\ \A n \in 1..Incoming0.n_agents[t] :
                LET i == IncomingSlot(t, n) IN
                /\ self.viz_types[t][i] = Incoming0.viz_types[t][n]
                /\ self.positions[t][i] = Incoming0.positions[t][n]
                /\ self.rotations[t][i] = Incoming0.rotations[t][n]
                /\ self.radii[t][i] = Incoming0.radii[t][n]
                /\ self.n_subpoints[t][i] = Incoming0.n_subpoints[t][n]
                /\ self.subpoints.data[t][i] = Incoming0.subpoints.data[t][n]

\* C24: after a successful merge viz_types, unique_ids, type_ids, positions,
\* rotations, radii, n_subpoints and subpoints all have the agent-axis length
\* max(base.n_agents) + max(incoming.n_agents), and no merged n_agents[t]
\* exceeds it.
C24_OneAgentAxis ==
    Merged =>
        LET capacity == Amax(Base0.n_agents) + Amax(Incoming0.n_agents) IN
        /\ AgentAxis(self.viz_types) = capacity
        /\ AgentAxis(self.unique_ids) = capacity
        /\ AgentAxis(Get(self.type_ids)) = capacity
        /\ AgentAxis(self.positions) = capacity
        /\ AgentAxis(self.rotations) = capacity
        /\ AgentAxis(self.radii) = capacity
        /\ AgentAxis(self.n_subpoints) = capacity
        /\ AgentAxis(self.subpoints.data) = capacity
        /\ self.subpoints.shape[2] = capacity
        /\ \A t \in Steps(self) : self.n_agents[t] <= capacity

\* C3: after a successful merge two valid slots of the result have the same
\* type ID exactly when they have the same type name.
C3_TypeIdsFollowNames ==
    Merged =>
        \A a, b \in ValidSlots(self) :
            (Get(self.type_ids)[a[1]][a[2]] = Get(self.type_ids)[b[1]][b[2]])
            <=> (self.types[a[1]][a[2]] = self.types[b[1]][b[2]])

\* C4: when unique IDs are unique per timestep in both operands they are
\* unique per timestep in the merged result, no merged incoming ID is the
\* unique ID of a valid base agent of any timestep, and two different raw
\* incoming IDs never get the same merged ID.
C4_MergedUidsUnique ==
    (Merged /\ UniquePerTimestep(Base0) /\ UniquePerTimestep(Incoming0)) =>
        /\ UniquePerTimestep(self)
        /\ \A a \in ValidSlots(Incoming0) : \A b \in ValidSlots(Base0) :
            self.unique_ids[a[1]][IncomingSlot(a[1], a[2])]
                # Base0.unique_ids[b[1]][b[2]]
        /\ \A a, b \in ValidSlots(Incoming0) :
            Incoming0.unique_ids[a[1]][a[2]] # Incoming0.unique_ids[b[1]][b[2]]
            => self.unique_ids[a[1]][IncomingSlot(a[1], a[2])]
                # self.unique_ids[b[1]][IncomingSlot(b[1], b[2])]

\* a merge that had to move an incoming ID off a base ID, with two incoming
\* agents in one timestep
C4_Witness ==
    /\ Merged
    /\ \E a \in ValidSlots(Incoming0) :
        /\ Incoming0.n_agents[a[1]] >= 2
        /\ \E b \in ValidSlots(Base0) :
            Incoming0.unique_ids[a[1]][a[2]] = Base0.unique_ids[b[1]][b[2]]
        /\ self.unique_ids[a[1]][IncomingSlot(a[1], a[2])]
            # Incoming0.unique_ids[a[1]][a[2]]

\* the unique IDs of the valid agents of a
ValidUids(a) == {a.unique_ids[s[1]][s[2]] : s \in ValidSlots(a)}

\* slot a comes before slot b: timestep ascending, then agent index
SlotBefore(a, b) == a[1] < b[1] \/ (a[1] = b[1] /\ a[2] < b[2])

\* the valid incoming slots where a raw ID is seen for the first time
FirstSeen(a) ==
    {s \in ValidSlots(a) :
        \A b \in ValidSlots(a) :
            a.unique_ids[b[1]][b[2]] = a.unique_ids[s[1]][s[2]]
            => (b = s \/ SlotBefore(s, b))}

\* the merged IDs given to the raw IDs first seen before slot s
AssignedBefore(s) ==
    {self.unique_ids[b[1]][IncomingSlot(b[1], b[2])] :
        b \in {c \in FirstSeen(Incoming0) : SlotBefore(c, s)}}

\* C25: in a successful merge each distinct raw incoming ID, taken in
\* first-seen order, gets the smallest value among raw, raw+1, ... that is
\* neither the unique ID of a valid base agent nor a merged ID assigned
\* before; values found only in base's padding slots do not count as used.
C25_SmallestFreeUid ==
    Merged =>
        \A s \in FirstSeen(Incoming0) :
            LET raw == Incoming0.unique_ids[s[1]][s[2]]
                uid == self.unique_ids[s[1]][IncomingSlot(s[1], s[2])]
                used == ValidUids(Base0) \cup AssignedBefore(s)
            IN  /\ uid >= raw
                /\ uid \notin used
                /\ \A v \in raw..(uid - 1) : v \in used

\* C5: the merged ID of an incoming agent depends on its raw ID alone: two
\* valid incoming slots with the same raw ID, in any timesteps, get the same
\* merged ID.
C5_RemapIsFunctionOfRawUid ==
    Merged =>
        \A a, b \in ValidSlots(Incoming0) :
            Incoming0.unique_ids[a[1]][a[2]] = Incoming0.unique_ids[b[1]][b[2]]
            => self.unique_ids[a[1]][IncomingSlot(a[1], a[2])]
                = self.unique_ids[b[1]][IncomingSlot(b[1], b[2])]

\* a raw ID that was remapped and occurs in two timesteps
C5_Witness ==
    /\ Merged
    /\ \E a, b \in ValidSlots(Incoming0) :
        /\ a[1] # b[1]
        /\ Incoming0.unique_ids[a[1]][a[2]] = Incoming0.unique_ids[b[1]][b[2]]
        /\ self.unique_ids[a[1]][IncomingSlot(a[1], a[2])]
            # Incoming0.unique_ids[a[1]][a[2]]

\* C6: a successful merge keeps base's valid agents where they were: their
\* unique IDs and type names are unchanged, and so are base's times.
C6_BaseKept ==
    Merged =>
        /\ self.times = Base0.times
        /\ \A a \in ValidSlots(Base0) :
            /\ self.unique_ids[a[1]][a[2]] = Base0.unique_ids[a[1]][a[2]]
            /\ self.types[a[1]][a[2]] = Base0.types[a[1]][a[2]]

\* a merge of a base with valid agents and an incoming operand with agents
\* whose raw IDs differ from base's
C6_Witness ==
    /\ Merged
    /\ \E a \in ValidSlots(Base0) : \E b \in ValidSlots(Incoming0) :
        /\ a[1] = b[1]
        /\ Base0.unique_ids[a[1]][a[2]] # Incoming0.unique_ids[b[1]][b[2]]

\* C7: with different numbers of timesteps append_agents raises a DataError
\* naming both counts, and leaves both operands as they were.
C7_MismatchRaisesUntouched ==
    (Called("append_agents") /\ Len(Base0.times) # Len(Incoming0.times)) =>
        /\ result.status = "raised"
        /\ result.error = [type |-> "DataError",
                           args |-> <<Len(Incoming0.times), Len(Base0.times)>>]
        /\ self = Base0
        /\ new_agents = Incoming0

\* a failed call on operands that both hold agents
C7_Witness ==
    /\ Called("append_agents")
    /\ Len(Base0.times) # Len(Incoming0.times)
    /\ ValidSlots(Base0) # {}
    /\ ValidSlots(Incoming0) # {}
    /\ result.status = "raised"

\* C8: on operands with the same number of timesteps append_agents
\* completes without error.
C8_OnlyMismatchFails ==
    (Called("append_agents") /\ Len(Base0.times) = Len(Incoming0.times)) =>
        result.status = "ok"

\* C9: a call that ends in an error leaves every field of the receiving
\* AgentData as it was before the call.
C9_ErrorLeavesReceiverUntouched ==
    (Called("append_agents") /\ result.status = "raised") => self = Base0

----------------------------------------------------------------------------
(* V1_SPATIAL_BUFFER_STRUCT: the layout of one record of a packed buffer *)

VIZ_TYPE_INDEX == 0
UID_INDEX == 1
TID_INDEX == 2
POSX_INDEX == 3
POSY_INDEX == 4
POSZ_INDEX == 5
ROTX_INDEX == 6
ROTY_INDEX == 7
ROTZ_INDEX == 8
R_INDEX == 9
NSP_INDEX == 10
SP_INDEX == 11
\* the scanner strides by data[NSP] + VALUES_PER_AGENT - NSP_INDEX - 1 from
\* the N_SUBPOINTS field, and a record is SP_INDEX + N_SUBPOINTS scalars long
VALUES_PER_AGENT == 12

IndexError == [type |-> "IndexError", args |-> <<>>]
KeyError(key) == [type |-> "KeyError", args |-> <<key>>]

\* data[i] of a Python list, i counted from 0
At(data, i) == data[i + 1]

BundleData(buffer) == buffer.spatialData.bundleData
TypeMapping(buffer) == buffer.trajectoryInfo.typeMapping

----------------------------------------------------------------------------
(* AgentData._get_buffer_data_dimensions *)

\* a point count that is the raw N_SUBPOINTS value, not divided by 3
PointCountRaw(scalars) == scalars

\* math.floor(data[i] / 3.0)
PointCount(scalars) == scalars \div 3

\* the walk over one timestep's data from offset i on;
\* st = [n_agents, max_n_subpoints, error]
RECURSIVE ScanFrame(_, _, _)
ScanFrame(data, i, st) ==
    IF ~(i < Len(data)) THEN st
    ELSE
        LET nsp_at == i + NSP_INDEX IN
        IF nsp_at >= Len(data)
        THEN [st EXCEPT !.n_agents = @ + 1, !.error = IndexError]
        ELSE
            LET n_sp == PointCount(At(data, nsp_at)) IN
            ScanFrame(data,
                      nsp_at + At(data, nsp_at)
                          + (VALUES_PER_AGENT - NSP_INDEX - 1),
                      [st EXCEPT
                          !.n_agents = @ + 1,
                          !.max_n_subpoints = Max(@, n_sp)])

\* the loop over the timesteps t..total_steps;
\* st = [max_n_agents, max_n_subpoints, error]
RECURSIVE ScanBundles(_, _, _)
ScanBundles(bundle_data, t, st) ==
    IF t > Len(bundle_data) \/ st.error # NoError THEN st
    ELSE
        LET f == ScanFrame(bundle_data[t].data, 0,
                           [n_agents |-> 0,
                            max_n_subpoints |-> st.max_n_subpoints,
                            error |-> NoError])
        IN  ScanBundles(bundle_data, t + 1,
                        [max_n_agents |->
                            IF f.error = NoError
                            THEN Max(st.max_n_agents, f.n_agents)
                            ELSE st.max_n_agents,
                         max_n_subpoints |-> f.max_n_subpoints,
                         error |-> f.error])

\* the result is [error, value]; value = <<total_steps, max_n_agents,
\* max_n_subpoints>> when no error was raised
get_buffer_data_dimensions(buffer) ==
    LET st == ScanBundles(BundleData(buffer), 1,
                          [max_n_agents |-> 0, max_n_subpoints |-> 0,
                           error |-> NoError])
    IN  [error |-> st.error,
         value |-> <<Len(BundleData(buffer)), st.max_n_agents,
                     st.max_n_subpoints>>]

----------------------------------------------------------------------------
(* AgentData.get_type_names *)

\* the keys looked up, in loop order: every slot of every row of type_ids
LookedUpKeys(type_ids) ==
    Flatten([t \in 1..Len(type_ids) |->
                [n \in 1..Len(type_ids[t]) |-> Str(type_ids[t][n])]])

\* a lookup that yields the empty name for a key the mapping lacks
get_type_names_or_empty(type_ids, type_mapping) ==
    [error |-> NoError,
     value |-> Some([t \in 1..Len(type_ids) |->
                        [n \in 1..Len(type_ids[t]) |->
                            IF Str(type_ids[t][n]) \in Keys(type_mapping)
                            THEN type_mapping[Str(type_ids[t][n])].name
                            ELSE ""]])]

\* the result is [error, value]: a KeyError for the first key that the
\* mapping lacks, else the names
get_type_names(type_ids, type_mapping) ==
    LET keys == LookedUpKeys(type_ids)
        missing == {k \in 1..Len(keys) : keys[k] \notin Keys(type_mapping)}
    IN  IF missing # {}
        THEN [error |-> KeyError(keys[CHOOSE k \in missing :
                                        \A m \in missing : k <= m]),
              value |-> None]
        ELSE [error |-> NoError,
              value |-> Some([t \in 1..Len(type_ids) |->
                            [n \in 1..Len(type_ids[t]) |->
                                type_mapping[Str(type_ids[t][n])].name]])]

----------------------------------------------------------------------------
(* AgentData.from_buffer_data *)

\* the rows of timestep t as allocated: radii ones, everything else zeros
EmptyRows(max_agents, max_subpoints) ==
    [ n |-> 0,
      viz_types |-> [k \in 1..max_agents |-> 0],
      unique_ids |-> [k \in 1..max_agents |-> 0],
      type_ids |-> [k \in 1..max_agents |-> 0],
      positions |-> [k \in 1..max_agents |-> <<0, 0, 0>>],
      rotations |-> [k \in 1..max_agents |-> <<0, 0, 0>>],
      radii |-> [k \in 1..max_agents |-> 1],
      n_subpoints |-> [k \in 1..max_agents |-> 0],
      subpoints |-> [k \in 1..max_agents |->
                        [q \in 1..max_subpoints |-> <<0, 0, 0>>]],
      error |-> NoError ]

\* the inner for loop over j: subpoints[t][n][p][d] = frame_data[i + 1 + j]
\* with p = j div 3, d = j mod 3; i is the offset of the N_SUBPOINTS field
SubpointWritesFail(frame_data, i, max_subpoints) ==
    \E j \in 0..(At(frame_data, i) - 1) :
        \/ j \div 3 >= max_subpoints
        \/ i + 1 + j >= Len(frame_data)

SubpointsWritten(frame_data, i, max_subpoints) ==
    [q \in 1..max_subpoints |-> [d \in 1..3 |->
        LET j == 3 * (q - 1) + (d - 1) IN
        IF j < At(frame_data, i) THEN At(frame_data, i + 1 + j) ELSE 0]]

\* the fixed fields of the record at offset i written to slot n (0-based)
WriteFixedFields(rows, frame_data, i, n) ==
    [rows EXCEPT
        !.viz_types[n + 1] = At(frame_data, i + VIZ_TYPE_INDEX),
        !.unique_ids[n + 1] = At(frame_data, i + UID_INDEX),
        !.type_ids[n + 1] = At(frame_data, i + TID_INDEX),
        !.positions[n + 1] = <<At(frame_data, i + POSX_INDEX),
                               At(frame_data, i + POSY_INDEX),
                               At(frame_data, i + POSZ_INDEX)>>,
        !.rotations[n + 1] = <<At(frame_data, i + ROTX_INDEX),
                               At(frame_data, i + ROTY_INDEX),
                               At(frame_data, i + ROTZ_INDEX)>>,
        !.radii[n + 1] = At(frame_data, i + R_INDEX)]

\* the while loop over one timestep's records from offset i on
RECURSIVE DecodeFrame(_, _, _, _, _)
DecodeFrame(frame_data, i, rows, max_agents, max_subpoints) ==
    IF ~(i + NSP_INDEX < Len(frame_data)) THEN rows
    ELSE IF rows.n >= max_agents THEN [rows EXCEPT !.error = IndexError]
    ELSE
        LET n == rows.n
            r1 == WriteFixedFields(rows, frame_data, i, n)
            nsp_at == i + NSP_INDEX
        IN
        IF max_subpoints < 1
        THEN DecodeFrame(frame_data, nsp_at + (SP_INDEX - NSP_INDEX),
                         [r1 EXCEPT !.n = n + 1], max_agents, max_subpoints)
        ELSE IF SubpointWritesFail(frame_data, nsp_at, max_subpoints)
        THEN [r1 EXCEPT !.error = IndexError]
        ELSE DecodeFrame(frame_data,
                         nsp_at + At(frame_data, nsp_at)
                             + (SP_INDEX - NSP_INDEX),
                         [r1 EXCEPT
                             !.n = n + 1,
                             !.n_subpoints[n + 1] = At(frame_data, nsp_at) \div 3,
                             !.subpoints[n + 1] =
                                 SubpointsWritten(frame_data, nsp_at, max_subpoints)],
                         max_agents, max_subpoints)

\* the result is [error, value]: value is Some(AgentData) when no error was
\* raised and None otherwise
from_buffer_data(buffer) ==
    LET bundle_data == BundleData(buffer)
        dims == get_buffer_data_dimensions(buffer)
    IN
    IF dims.error # NoError THEN [error |-> dims.error, value |-> None]
    ELSE
    LET total_steps == dims.value[1]
        max_agents == dims.value[2]
        max_subpoints == dims.value[3]
        rows == [t \in 1..total_steps |->
                    DecodeFrame(bundle_data[t].data, 0,
                                EmptyRows(max_agents, max_subpoints),
                                max_agents, max_subpoints)]
        failed == {t \in 1..total_steps : rows[t].error # NoError}
    IN
    IF failed # {}
    THEN [error |-> rows[CHOOSE t \in failed : \A u \in failed : t <= u].error,
          value |-> None]
    ELSE
    LET type_ids == [t \in 1..total_steps |-> rows[t].type_ids]
        type_names == get_type_names(type_ids, TypeMapping(buffer))
    IN
    IF type_names.error # NoError
    THEN [error |-> type_names.error, value |-> None]
    ELSE [error |-> NoError,
          value |-> Some(AgentData(
              [t \in 1..total_steps |-> bundle_data[t].time],
              [t \in 1..total_steps |-> rows[t].n],
              [t \in 1..total_steps |-> rows[t].viz_types],
              [t \in 1..total_steps |-> rows[t].unique_ids],
              Get(type_names.value),
              [t \in 1..total_steps |-> rows[t].positions],
              [t \in 1..total_steps |-> rows[t].radii],
              Some([t \in 1..total_steps |-> rows[t].rotations]),
              Some([t \in 1..total_steps |-> rows[t].n_subpoints]),
              Some(NdArray(<<total_steps, max_agents, max_subpoints, 3>>,
                           [t \in 1..total_steps |-> rows[t].subpoints])),
              FALSE,
              Some(type_ids)))]

----------------------------------------------------------------------------
(* Encode: the inverse of from_buffer_data *)

\* one record: the fixed fields in layout order, N_SUBPOINTS as 3 times the
\* valid point count, the valid points flattened
EncodeRecord(a, t, n) ==
    <<a.viz_types[t][n], a.unique_ids[t][n], Get(a.type_ids)[t][n]>>
    \o a.positions[t][n] \o a.rotations[t][n]
    \o <<a.radii[t][n], 3 * a.n_subpoints[t][n]>>
    \o Flatten(SubSeq(a.subpoints.data[t][n], 1, a.n_subpoints[t][n]))

\* only the first n_agents[t] records of a timestep are emitted; typeMapping
\* is the name table of the (name, id) pairs the model carries
encode(a) ==
    [ trajectoryInfo |->
        [typeMapping |->
            get_type_ids_and_mapping(a.types, a.type_ids).type_name_mapping],
      spatialData |->
        [bundleData |->
            [t \in 1..Len(a.times) |->
                [ frameNumber |-> t - 1,
                  time |-> a.times[t],
                  data |-> Flatten([n \in 1..a.n_agents[t] |->
                                        EncodeRecord(a, t, n)]) ]]] ]

----------------------------------------------------------------------------
(* Inputs of the codec *)

MaxScalars == 4
MaxSlack == 1
MaxCut == 1

\* the type IDs a producer gave the two names, counted from id_base
ProducerTypeId(name, id_base) == IF name = "A" THEN id_base ELSE id_base + 1

\* A dense AgentData with tight axes: frames[t] lists the valid agents of
\* timestep t as [type, nsub]; the agent axis is as long as the longest
\* frame and the subpoint axis as long as the largest nsub.  Padding holds
\* the defaults of a decoded model.
MkCodecModel(frames, id_base) ==
    LET steps == Len(frames)
        cap == IF steps = 0 THEN 0
               ELSE Amax([t \in 1..steps |-> Len(frames[t])])
        nsubs == UNION {{frames[t][n].nsub : n \in 1..Len(frames[t])} :
                            t \in 1..steps}
        S == IF nsubs = {} THEN 0
             ELSE CHOOSE m \in nsubs : \A x \in nsubs : x <= m
        valid(t, n) == n <= Len(frames[t])
    IN  AgentData(
            [t \in 1..steps |-> t - 1],
            [t \in 1..steps |-> Len(frames[t])],
            [t \in 1..steps |-> [n \in 1..cap |->
                IF ~valid(t, n) THEN 0
                ELSE IF frames[t][n].nsub > 0 THEN VIZ_TYPE_FIBER
                ELSE VIZ_TYPE_DEFAULT]],
            [t \in 1..steps |-> [n \in 1..cap |->
                IF valid(t, n) THEN n ELSE 0]],
            [t \in 1..steps |-> [n \in 1..cap |->
                IF valid(t, n) THEN frames[t][n].type ELSE ""]],
            [t \in 1..steps |-> [n \in 1..cap |->
                IF valid(t, n) THEN SlotPosition(1, t, n) ELSE <<0, 0, 0>>]],
            [t \in 1..steps |-> [n \in 1..cap |->
                IF valid(t, n) THEN SlotRadius(1, t, n) ELSE 1]],
            Some([t \in 1..steps |-> [n \in 1..cap |->
                IF valid(t, n) THEN SlotRotation(1, t, n) ELSE <<0, 0, 0>>]]),
            Some([t \in 1..steps |-> [n \in 1..cap |->
                IF valid(t, n) THEN frames[t][n].nsub ELSE 0]]),
            Some(NdArray(<<steps, cap, S, 3>>,
                [t \in 1..steps |-> [n \in 1..cap |-> [q \in 1..S |->
                    IF valid(t, n) /\ q <= frames[t][n].nsub
                    THEN SlotSubpoint(1, t, n, q)
                    ELSE <<0, 0, 0>>]]])),
            FALSE,
            Some([t \in 1..steps |-> [n \in 1..cap |->
                IF valid(t, n) THEN ProducerTypeId(frames[t][n].type, id_base)
                ELSE 0]]))

CodecAgents == [type : TypeNames, nsub : 0..MaxSubpoints]

\* the empty trajectory, and the trajectories of every roster of agents
CodecModels ==
    UNION {{MkCodecModel(frames, id_base) :
                frames \in {<<>>}
                    \cup Trajectories(SeqsUpTo(CodecAgents, MaxAgents))} :
            id_base \in {0, 1}}

\* A synthesized buffer: plan.records[t] lists the N_SUBPOINTS value of each
\* record of timestep t, plan.slack[t] is the number of scalars that follow
\* the last record (the same in every timestep), plan.cut is the number of
\* subpoint scalars missing from the end of the last record of the last
\* timestep (a truncated buffer has no slack).
LastRecord(records) ==
    LET last == records[Len(records)] IN last[Len(last)]

Truncatable(records, cut) ==
    /\ Len(records) > 0
    /\ Len(records[Len(records)]) > 0
    /\ cut <= LastRecord(records)

RawRecordLists ==
    {<<>>} \cup Trajectories(SeqsUpTo(0..MaxScalars, MaxAgents))

RawPlans ==
    UNION {{[records |-> records,
             slack |-> [t \in 1..Len(records) |-> slack],
             cut |-> 0] : records \in RawRecordLists} :
            slack \in 0..MaxSlack}
    \cup
    UNION {{[records |-> records,
             slack |-> [t \in 1..Len(records) |-> 0],
             cut |-> cut] :
                records \in {r \in RawRecordLists : Truncatable(r, cut)}} :
            cut \in 1..MaxCut}

RawRecord(t, n, nsp) ==
    <<VIZ_TYPE_DEFAULT, n, ((n - 1) % 2) + 1>>
    \o SlotPosition(1, t, n) \o SlotRotation(1, t, n)
    \o <<SlotRadius(1, t, n), nsp>>
    \o [j \in 1..nsp |-> 40 + j]

RawBuffer(p) ==
    [ trajectoryInfo |->
        [typeMapping |-> ("1" :> [name |-> "A"]) @@ ("2" :> [name |-> "B"])],
      spatialData |->
        [bundleData |->
            [t \in 1..Len(p.records) |->
                LET whole == Flatten([n \in 1..Len(p.records[t]) |->
                                        RawRecord(t, n, p.records[t][n])])
                    kept == IF t = Len(p.records)
                            THEN Len(whole) - p.cut ELSE Len(whole)
                IN
                [ frameNumber |-> t - 1,
                  time |-> t - 1,
                  data |-> SubSeq(whole, 1, kept)
                           \o [k \in 1..p.slack[t] |-> 7] ]]] ]

----------------------------------------------------------------------------
(* The codec as a state machine: encode a model, then scan or decode the
   buffer; or scan or decode a synthesized buffer *)

InitCodec ==
    /\ NoOthers
    /\ new_agents = None
    /\ result = NoResult
    /\ pre = None
    /\ \/ /\ pc = "encode"
          /\ self \in CodecModels
          /\ buffer_data = None
          /\ plan = None
       \/ /\ pc = "decode"
          /\ self = None
          /\ \E p \in RawPlans :
                /\ plan = Some(p)
                /\ buffer_data = Some(RawBuffer(p))

Encode ==
    /\ pc = "encode"
    /\ buffer_data' = Some(encode(self))
    /\ result' = [op |-> "encode", status |-> "ok", error |-> NoError,
                  value |-> None]
    /\ pre' = Operands
    /\ pc' = "decode"
    /\ UNCHANGED <<self, new_agents, plan, others>>

Outcome(op, r) ==
    [op |-> op,
     status |-> IF r.error = NoError THEN "ok" ELSE "raised",
     error |-> r.error,
     value |-> IF r.error = NoError THEN r.value ELSE None]

GetBufferDataDimensions ==
    /\ pc = "decode"
    /\ LET r == get_buffer_data_dimensions(Get(buffer_data)) IN
        result' = Outcome("_get_buffer_data_dimensions",
                          [error |-> r.error, value |-> Some(r.value)])
    /\ pre' = Operands
    /\ pc' = "done"
    /\ UNCHANGED <<self, new_agents, buffer_data, plan, others>>

FromBufferData ==
    /\ pc = "decode"
    /\ result' = Outcome("from_buffer_data", from_buffer_data(Get(buffer_data)))
    /\ pre' = Operands
    /\ pc' = "done"
    /\ UNCHANGED <<self, new_agents, buffer_data, plan, others>>

NextCodec == Encode \/ GetBufferDataDimensions \/ FromBufferData

SpecCodec == InitCodec /\ [][NextCodec]_vars

----------------------------------------------------------------------------
(* Properties of the codec *)

\* every field of the decoded model d equals the field of the model x, the
\* type names on the valid slots
SameModel(d, x) ==
    /\ d.times = x.times
    /\ d.n_agents = x.n_agents
    /\ d.viz_types = x.viz_types
    /\ d.unique_ids = x.unique_ids
    /\ d.type_ids = x.type_ids
    /\ d.positions = x.positions
    /\ d.rotations = x.rotations
    /\ d.radii = x.radii
    /\ d.n_subpoints = x.n_subpoints
    /\ d.subpoints = x.subpoints
    /\ \A t \in 1..Len(x.times) : \A n \in 1..x.n_agents[t] :
        d.types[t][n] = x.types[t][n]

\* C1: decoding the buffer a model was encoded to succeeds and yields a
\* model equal to it in every field.
C1_RoundTrip ==
    (Called("from_buffer_data") /\ Get(pre).after = "encode") =>
        /\ result.status = "ok"
        /\ SameModel(Get(result.value), self)

\* the plan's ground truth: the largest record count of a timestep and the
\* largest point count of a record
PlanMaxAgents(p) ==
    IF Len(p.records) = 0 THEN 0
    ELSE Amax([t \in 1..Len(p.records) |-> Len(p.records[t])])

PlanMaxSubpoints(p) ==
    LET counts == UNION {{p.records[t][n] \div 3 : n \in 1..Len(p.records[t])} :
                            t \in 1..Len(p.records)}
    IN  IF counts = {} THEN 0
        ELSE CHOOSE m \in counts : \A x \in counts : x <= m

ExactPlan(p) == p.cut = 0 /\ \A t \in 1..Len(p.slack) : p.slack[t] = 0

\* C10: on a buffer whose timesteps are exact concatenations of records the
\* scanner returns the number of timesteps, the largest record count of a
\* timestep and the largest floor(N_SUBPOINTS / 3) of a record (0 and 0
\* without records).
C10_ScannerExact ==
    (Called("_get_buffer_data_dimensions") /\ ~IsNone(plan)
        /\ ExactPlan(Get(plan))) =>
        /\ result.status = "ok"
        /\ Get(result.value) = <<Len(Get(plan).records),
                                 PlanMaxAgents(Get(plan)),
                                 PlanMaxSubpoints(Get(plan))>>

\* a scan of two timesteps with different record counts and records with
\* and without a full point
C10_Witness ==
    /\ Called("_get_buffer_data_dimensions")
    /\ ~IsNone(plan)
    /\ ExactPlan(Get(plan))
    /\ Len(Get(plan).records) = 2
    /\ Get(plan).records[1] = <<3, 2>>
    /\ Get(plan).records[2] = <<2>>
    /\ result.status = "ok"

\* some timestep of the plan ends in trailing slack: fewer scalars than the
\* fixed prefix of a record follow its last record
HasSlack(p) ==
    /\ p.cut = 0
    /\ \E t \in 1..Len(p.slack) : p.slack[t] > 0
    /\ \A t \in 1..Len(p.slack) : p.slack[t] < SP_INDEX

PlanDimensions(p) ==
    <<Len(p.records), PlanMaxAgents(p), PlanMaxSubpoints(p)>>

\* C11: when fewer scalars than one minimal record remain after the last
\* complete record of a timestep, the scanner raises no error, does not count
\* the remainder as an agent and returns the dimensions of the records.
C11_TrailingSlackTolerated ==
    (Called("_get_buffer_data_dimensions") /\ ~IsNone(plan)
        /\ HasSlack(Get(plan))) =>
        /\ result.status = "ok"
        /\ Get(result.value) = PlanDimensions(Get(plan))

\* C12: decoding a buffer in which the last record's N_SUBPOINTS reads past
\* the end of its timestep's data fails with an error, whatever the
\* overrunning value; no model is returned from a truncated record.
C12_TruncatedRecordFails ==
    (Called("from_buffer_data") /\ ~IsNone(plan) /\ Get(plan).cut > 0) =>
        /\ result.status = "raised"
        /\ IsNone(result.value)

\* the record n of timestep t of the plan, as it lies in the buffer
PlanRecord(p, t, n) == RawRecord(t, n, p.records[t][n])

\* the decoded model d holds record n of timestep t in slot n: the fixed
\* fields at their layout offsets, floor(N_SUBPOINTS / 3) points, subpoint
\* scalar 3p + d at subpoints[t][n][p][d], the name of its type ID
RecordPlaced(d, p, mapping, t, n) ==
    LET rec == PlanRecord(p, t, n)
        nsp == At(rec, NSP_INDEX)
    IN  /\ d.viz_types[t][n] = At(rec, VIZ_TYPE_INDEX)
        /\ d.unique_ids[t][n] = At(rec, UID_INDEX)
        /\ Get(d.type_ids)[t][n] = At(rec, TID_INDEX)
        /\ d.positions[t][n] = <<At(rec, POSX_INDEX), At(rec, POSY_INDEX),
                                 At(rec, POSZ_INDEX)>>
        /\ d.rotations[t][n] = <<At(rec, ROTX_INDEX), At(rec, ROTY_INDEX),
                                 At(rec, ROTZ_INDEX)>>
        /\ d.radii[t][n] = At(rec, R_INDEX)
        /\ d.n_subpoints[t][n] = nsp \div 3
        /\ \A j \in 0..(nsp - 1) :
            /\ (j \div 3) + 1 <= Len(d.subpoints.data[t][n])
            /\ d.subpoints.data[t][n][(j \div 3) + 1][(j % 3) + 1]
                    = At(rec, SP_INDEX + j)
        /\ Str(At(rec, TID_INDEX)) \in Keys(mapping)
        /\ d.types[t][n] = mapping[Str(At(rec, TID_INDEX))].name

Placed(d, p, buffer) ==
    /\ Len(d.times) = Len(p.records)
    /\ \A t \in 1..Len(p.records) :
        /\ d.times[t] = BundleData(buffer)[t].time
        /\ d.n_agents[t] = Len(p.records[t])
        /\ Len(d.viz_types[t]) >= Len(p.records[t])
        /\ \A n \in 1..Len(p.records[t]) :
                n <= Len(d.viz_types[t])
                    => RecordPlaced(d, p, TypeMapping(buffer), t, n)

\* C13: the model from_buffer_data returns for a buffer whose timesteps are
\* exact concatenations of records holds, for every timestep, the time, the
\* record count and every record in its slot.
C13_RecordsPlaced ==
    (Called("from_buffer_data") /\ ~IsNone(plan) /\ ExactPlan(Get(plan))
        /\ result.status = "ok") =>
        Placed(Get(result.value), Get(plan), Get(buffer_data))

\* a buffer of whole records whose N_SUBPOINTS are multiples of 3
WellFormed(p) ==
    /\ ExactPlan(p)
    /\ \A t \in 1..Len(p.records) : \A n \in 1..Len(p.records[t]) :
            p.records[t][n] % 3 = 0

RecordTypeIdsMapped(p, buffer) ==
    \A t \in 1..Len(p.records) : \A n \in 1..Len(p.records[t]) :
        Str(At(PlanRecord(p, t, n), TID_INDEX)) \in Keys(TypeMapping(buffer))

\* C14: decoding succeeds on every well-formed buffer in which each record's
\* type ID has an entry in typeMapping, also when the timesteps have
\* different record counts and typeMapping has no entry for ID 0.
C14_PaddingNotLookedUp ==
    (Called("from_buffer_data") /\ ~IsNone(plan) /\ WellFormed(Get(plan))
        /\ RecordTypeIdsMapped(Get(plan), Get(buffer_data))) =>
        result.status = "ok"

Decoded == Called("from_buffer_data") /\ result.status = "ok"

\* slot n of timestep t of d holds what the allocation put there
DefaultSlot(d, t, n) ==
    /\ d.radii[t][n] = 1
    /\ d.viz_types[t][n] = 0
    /\ d.unique_ids[t][n] = 0
    /\ Get(d.type_ids)[t][n] = 0
    /\ d.positions[t][n] = <<0, 0, 0>>
    /\ d.rotations[t][n] = <<0, 0, 0>>
    /\ d.n_subpoints[t][n] = 0
    /\ \A q \in 1..Len(d.subpoints.data[t][n]) :
            d.subpoints.data[t][n][q] = <<0, 0, 0>>

\* C26: in a decoded model every slot n >= n_agents[t] has radius 1 and zero
\* in every other array, and every valid slot has all-zero subpoints at every
\* point index p >= n_subpoints[t][n].
C26_PaddingKeepsDefaults ==
    Decoded =>
        LET d == Get(result.value) IN
        \A t \in Steps(d) :
            /\ \A n \in 1..Len(d.radii[t]) :
                    n > d.n_agents[t] => DefaultSlot(d, t, n)
            /\ \A n \in 1..d.n_agents[t] :
                \A q \in 1..Len(d.subpoints.data[t][n]) :
                    q > d.n_subpoints[t][n]
                        => d.subpoints.data[t][n][q] = <<0, 0, 0>>

\* the scanner raises no error on the buffer
ScannerAccepts(buffer) == get_buffer_data_dimensions(buffer).error = NoError

\* the number of records the scanner counts in timestep t
ScannedCount(buffer, t) ==
    ScanFrame(BundleData(buffer)[t].data, 0,
              [n_agents |-> 0, max_n_subpoints |-> 0,
               error |-> NoError]).n_agents

\* a buffer whose timesteps are exact concatenations of whole records: an
\* encoded model, or a synthesized buffer without slack and truncation
WholeRecords == IsNone(plan) \/ ExactPlan(Get(plan))

\* C27: on every buffer of whole records the scanner accepts, the decoder
\* writes inside the arrays allocated from the scanner's dimensions (no
\* IndexError), counts in every timestep the records the scanner counted,
\* and stores no n_subpoints above the subpoint-axis capacity; also when some
\* N_SUBPOINTS is not a multiple of 3 or every N_SUBPOINTS is below 3.
C27_ScannerAndDecoderAgree ==
    (Called("from_buffer_data") /\ WholeRecords
        /\ ScannerAccepts(Get(buffer_data))) =>
        /\ result.error # IndexError
        /\ result.status = "ok" =>
            LET d == Get(result.value) IN
            \A t \in Steps(d) :
                /\ d.n_agents[t] = ScannedCount(Get(buffer_data), t)
                /\ \A n \in 1..Len(d.n_subpoints[t]) :
                        d.n_subpoints[t][n] <= d.subpoints.shape[3]

----------------------------------------------------------------------------
(* The type registry as a state machine: one call of a static method on
   arguments a caller can pass *)

SwapName(name) ==
    IF name = "A" THEN "B" ELSE IF name = "B" THEN "A" ELSE name

\* The name lists of a roster of agents, the empty name for an agent without
\* a type: every timestep before `leave` holds the roster; every later one
\* the roster without its first agent, under the same names or (renamed)
\* with the two names exchanged.
NameRosters == SeqsUpTo(TypeNames \cup {""}, MaxAgents)

NamesOf(roster, steps, leave, renamed) ==
    [t \in 1..steps |->
        IF t < leave \/ roster = <<>> THEN roster
        ELSE IF renamed
             THEN [n \in 1..(Len(roster) - 1) |-> SwapName(roster[n + 1])]
             ELSE Tail(roster)]

TypeNameLists ==
    {<<>>} \cup
    UNION {UNION {UNION {
        {NamesOf(roster, steps, leave, renamed) : roster \in NameRosters} :
        leave \in 1..(steps + 1)} : steps \in 1..MaxSteps} :
        renamed \in BOOLEAN}

\* The type IDs a caller holds for the names: scheme 1 and 2 give each name
\* its own ID, scheme 3 gives both names the same ID, scheme 4 gives a name
\* the ID t + 1 in timestep t (counted from 0).  The array is as wide as the
\* longest name list, the slots without a name hold 0.
IdSchemes == 1..4

SchemeId(scheme, name, t) ==
    IF name = "" THEN 0
    ELSE IF scheme = 1 THEN (IF name = "A" THEN 1 ELSE 2)
    ELSE IF scheme = 2 THEN (IF name = "A" THEN 2 ELSE 1)
    ELSE IF scheme = 3 THEN 1
    ELSE t

ExistingIds(names, scheme) ==
    LET width == IF Len(names) = 0 THEN 0
                 ELSE Amax([t \in 1..Len(names) |-> Len(names[t])])
    IN  [t \in 1..Len(names) |-> [n \in 1..width |->
            IF n <= Len(names[t]) THEN SchemeId(scheme, names[t][n], t)
            ELSE 0]]

\* the name tables a caller holds: none, the two names, the two names and
\* an entry for ID 0, an entry for ID 0 only
NameTables ==
    { EmptyDict,
      ("1" :> [name |-> "A"]) @@ ("2" :> [name |-> "B"]),
      ("0" :> [name |-> ""]) @@ ("1" :> [name |-> "A"])
          @@ ("2" :> [name |-> "B"]),
      ("0" :> [name |-> "A"]) }

InitTypes ==
    /\ pc = "types"
    /\ self = None
    /\ new_agents = None
    /\ buffer_data = None
    /\ result = NoResult
    /\ pre = None
    /\ plan = None
    /\ heap = <<>>
    /\ copied = None
    /\ cameras = <<>>
    /\ \E names \in TypeNameLists, table \in NameTables :
        \E ids \in {None} \cup {Some(ExistingIds(names, k)) : k \in IdSchemes} :
            args = [type_names |-> names, type_ids |-> ids,
                    type_mapping |-> table]

\* type_ids, type_name_mapping = get_type_ids_and_mapping(type_names, type_ids)
GetTypeIdsAndMapping ==
    /\ pc = "types"
    /\ result' = Outcome("get_type_ids_and_mapping",
                    [error |-> NoError,
                     value |-> Some(get_type_ids_and_mapping(args.type_names,
                                                             args.type_ids))])
    /\ pre' = Operands
    /\ pc' = "done"
    /\ UNCHANGED <<self, new_agents, buffer_data, plan, args, heap, copied, cameras>>

\* get_type_names(type_ids, type_mapping) on an array of type IDs
GetTypeNames ==
    /\ pc = "types"
    /\ ~IsNone(args.type_ids)
    /\ result' = Outcome("get_type_names",
                    get_type_names(Get(args.type_ids), args.type_mapping))
    /\ pre' = Operands
    /\ pc' = "done"
    /\ UNCHANGED <<self, new_agents, buffer_data, plan, args, heap, copied, cameras>>

NextTypes == GetTypeIdsAndMapping \/ GetTypeNames

SpecTypes == InitTypes /\ [][NextTypes]_vars

----------------------------------------------------------------------------
(* Properties of the type registry *)

Registered == Called("get_type_ids_and_mapping")
ReturnedIds == Get(result.value).type_ids
ReturnedTable == Get(result.value).type_name_mapping

NamedSlots(names) ==
    {s \in (1..Len(names)) \X (1..MaxAgents + 1) :
        s[2] <= Len(names[s[1]]) /\ names[s[1]][s[2]] # ""}

\* slot a is scanned before slot b: timesteps ascending, agent indices
\* ascending within a timestep
ScannedBefore(a, b) == a[1] < b[1] \/ (a[1] = b[1] /\ a[2] < b[2])

FirstSlotOf(names, name) ==
    CHOOSE a \in NamedSlots(names) :
        /\ names[a[1]][a[2]] = name
        /\ \A b \in NamedSlots(names) :
            names[b[1]][b[2]] = name => ~ScannedBefore(b, a)

\* the number of distinct names first seen before the name is first seen
FirstSeenRank(names, name) ==
    Cardinality({other \in {names[b[1]][b[2]] : b \in NamedSlots(names)} :
        ScannedBefore(FirstSlotOf(names, other), FirstSlotOf(names, name))})

\* C15: without existing IDs every non-empty name gets the number of
\* distinct non-empty names first seen before it (timesteps ascending, agent
\* indices ascending within a timestep) at each of its occurrences, and the
\* name table maps str(ID) to the name and has no other entries.
C15_FirstSeenOrder ==
    (Registered /\ IsNone(args.type_ids)) =>
        LET names == args.type_names IN
        /\ \A a \in NamedSlots(names) :
            LET name == names[a[1]][a[2]]
                rank == FirstSeenRank(names, name)
            IN  /\ ReturnedIds[a[1]][a[2]] = rank
                /\ Str(rank) \in Keys(ReturnedTable)
                /\ ReturnedTable[Str(rank)] = [name |-> name]
        /\ Keys(ReturnedTable) =
                {Str(FirstSeenRank(names, names[a[1]][a[2]])) :
                    a \in NamedSlots(names)}

\* a name that is new in slot 1 of timestep 0 and another that is new in
\* slot 0 of timestep 1
C15_Witness ==
    /\ Registered
    /\ IsNone(args.type_ids)
    /\ args.type_names = << <<"", "A">>, <<"B">> >>
    /\ ReturnedIds = << <<0, 0>>, <<1, 0>> >>
    /\ Keys(ReturnedTable) = {"0", "1"}

\* the name lists without their empty names
WithoutEmpty(names) ==
    [t \in 1..Len(names) |-> SelectSeq(names[t], LAMBDA name : name # "")]

\* the number of non-empty names in the first n slots of row
NamedUpTo(row, n) == Cardinality({k \in 1..n : row[k] # ""})

\* C16: an empty name's slot of the ID array is 0, no table entry names the
\* empty name, and the non-empty names get the IDs and the table they get
\* when the empty slots are removed from the lists.
C16_EmptyNamesSkipped ==
    (Registered /\ IsNone(args.type_ids)) =>
        LET names == args.type_names
            dense == get_type_ids_and_mapping(WithoutEmpty(names), None)
        IN
        /\ \A t \in 1..Len(names) : \A n \in 1..Len(names[t]) :
            IF names[t][n] = "" THEN ReturnedIds[t][n] = 0
            ELSE ReturnedIds[t][n]
                    = dense.type_ids[t][NamedUpTo(names[t], n)]
        /\ \A key \in Keys(ReturnedTable) : ReturnedTable[key].name # ""
        /\ ReturnedTable = dense.type_name_mapping
        /\ Cardinality(Keys(ReturnedTable))
                = Cardinality({names[a[1]][a[2]] : a \in NamedSlots(names)})

\* an empty name ahead of the first name: the two names get 0 and 1, the
\* empty name's slot stays 0
C16_Witness ==
    /\ Registered
    /\ IsNone(args.type_ids)
    /\ args.type_names = << <<"", "B">>, <<"A">> >>
    /\ ReturnedIds = << <<0, 0>>, <<1, 0>> >>
    /\ ReturnedTable = ("0" :> [name |-> "B"]) @@ ("1" :> [name |-> "A"])

\* the distinct non-empty names of the lists
DistinctNames(names) == {names[a[1]][a[2]] : a \in NamedSlots(names)}

\* C28: without existing IDs the k distinct non-empty names and the IDs
\* 0..k-1 are in bijection: the name table has exactly the keys "0" ..
\* str(k-1), each mapped to a different name, and two slots with non-empty
\* names get equal IDs if and only if their names are equal.
C28_NamesAndIdsInBijection ==
    (Registered /\ IsNone(args.type_ids)) =>
        LET names == args.type_names
            k == Cardinality(DistinctNames(names))
        IN  /\ Keys(ReturnedTable) = {Str(i) : i \in 0..(k - 1)}
            /\ \A i, j \in 0..(k - 1) :
                    i # j => ReturnedTable[Str(i)] # ReturnedTable[Str(j)]
            /\ \A a, b \in NamedSlots(names) :
                    ReturnedIds[a[1]][a[2]] = ReturnedIds[b[1]][b[2]]
                        <=> names[a[1]][a[2]] = names[b[1]][b[2]]

\* two distinct names, one of them in two slots, registered without
\* existing IDs
C28_Witness ==
    /\ Registered
    /\ IsNone(args.type_ids)
    /\ Cardinality(DistinctNames(args.type_names)) = 2
    /\ \E a, b \in NamedSlots(args.type_names) :
        /\ a # b
        /\ args.type_names[a[1]][a[2]] = args.type_names[b[1]][b[2]]
    /\ Keys(ReturnedTable) = {"0", "1"}

\* no two different names carry the same ID
IdsTellNamesApart(names, ids) ==
    \A a, b \in NamedSlots(names) :
        ids[a[1]][a[2]] = ids[b[1]][b[2]]
            => names[a[1]][a[2]] = names[b[1]][b[2]]

\* C17: with existing IDs the returned array is the supplied one, and for
\* every slot with a non-empty name the table has an entry under the slot's
\* ID whose name is the slot's name, also when a name has two IDs.
C17_TableCoversExistingIds ==
    (Registered /\ ~IsNone(args.type_ids)
        /\ IdsTellNamesApart(args.type_names, Get(args.type_ids))) =>
        LET names == args.type_names
            ids == Get(args.type_ids)
        IN
        /\ ReturnedIds = ids
        /\ \A a \in NamedSlots(names) :
            /\ Str(ids[a[1]][a[2]]) \in Keys(ReturnedTable)
            /\ ReturnedTable[Str(ids[a[1]][a[2]])].name = names[a[1]][a[2]]

SomeKeyMissing(ids, table) ==
    \E t \in 1..Len(ids) : \E n \in 1..Len(ids[t]) :
        Str(ids[t][n]) \notin Keys(table)

\* C18: get_type_names raises exactly when the table lacks the key of some
\* slot's ID and then returns nothing; otherwise it returns, slot by slot,
\* the name the table holds under the ID; the ID array and the table are
\* as they were before the call.
C18_PureLookup ==
    Called("get_type_names") =>
        LET ids == Get(args.type_ids)
            table == args.type_mapping
        IN
        /\ args = Get(pre).args
        /\ (result.status = "raised") <=> SomeKeyMissing(ids, table)
        /\ result.status = "raised" =>
            /\ IsNone(result.value)
            /\ result.error.type = "KeyError"
        /\ result.status = "ok" =>
            /\ Len(Get(result.value)) = Len(ids)
            /\ \A t \in 1..Len(ids) :
                /\ Len(Get(result.value)[t]) = Len(ids[t])
                /\ \A n \in 1..Len(ids[t]) :
                    Get(result.value)[t][n] = table[Str(ids[t][n])].name

\* a lookup that fails on its second timestep after finding the first
\* timestep's IDs in the table
C18_Witness ==
    /\ Called("get_type_names")
    /\ result.status = "raised"
    /\ result.error = KeyError("0")
    /\ Len(Get(args.type_ids)) = 2
    /\ Get(args.type_ids)[1] = <<1, 2>>
    /\ Get(args.type_ids)[2] = <<2, 0>>

----------------------------------------------------------------------------
(* AgentData.__deepcopy__ *)

\* An object is a record of addresses: heap[a] is the array or list at
\* address a.  A list of lists holds the addresses of its rows.

\* np.copy(arr): a new array with the same content
NpCopy(h, addr) == [heap |-> Append(h, h[addr]), ref |-> Len(h) + 1]

\* copy.copy of a list of lists: a new outer list of the same rows
ShallowCopyList(h, addr) == [heap |-> Append(h, h[addr]), ref |-> Len(h) + 1]

\* the rows of a list of lists copied one by one; memo maps the address of
\* a row already copied to the address of its copy (strings are immutable
\* and shared)
RECURSIVE DeepcopyRows(_, _, _, _)
DeepcopyRows(h, rows, memo, out) ==
    IF rows = <<>> THEN [heap |-> h, refs |-> out]
    ELSE IF Head(rows) \in Keys(memo)
    THEN DeepcopyRows(h, Tail(rows), memo, Append(out, memo[Head(rows)]))
    ELSE DeepcopyRows(Append(h, h[Head(rows)]), Tail(rows),
                      DictPut(memo, Head(rows), Len(h) + 1),
                      Append(out, Len(h) + 1))

\* copy.deepcopy(self.types, memo)
DeepcopyList(h, addr) ==
    LET r == DeepcopyRows(h, h[addr], EmptyDict, <<>>)
    IN  [heap |-> Append(r.heap, r.refs), ref |-> Len(r.heap) + 1]

\* the result is [heap, value]: the heap after the copies were allocated
\* and the object the constructor returns
deepcopy(h, obj) ==
    LET ids == IF IsNone(obj.type_ids) THEN [heap |-> h, ref |-> None]
               ELSE LET c == NpCopy(h, Get(obj.type_ids))
                    IN  [heap |-> c.heap, ref |-> Some(c.ref)]
        times == NpCopy(ids.heap, obj.times)
        n_agents == NpCopy(times.heap, obj.n_agents)
        viz_types == NpCopy(n_agents.heap, obj.viz_types)
        unique_ids == NpCopy(viz_types.heap, obj.unique_ids)
        types == DeepcopyList(unique_ids.heap, obj.types)
        positions == NpCopy(types.heap, obj.positions)
        radii == NpCopy(positions.heap, obj.radii)
        rotations == NpCopy(radii.heap, obj.rotations)
        n_subpoints == NpCopy(rotations.heap, obj.n_subpoints)
        subpoints == NpCopy(n_subpoints.heap, obj.subpoints)
    IN  [heap |-> subpoints.heap,
         value |-> AgentData(times.ref, n_agents.ref, viz_types.ref,
                             unique_ids.ref, types.ref, positions.ref,
                             radii.ref, Some(rotations.ref),
                             Some(n_subpoints.ref), Some(subpoints.ref),
                             obj.draw_fiber_points, ids.ref)]

----------------------------------------------------------------------------
(* Deep copy as a state machine: an AgentData is copied, then one array or
   name list of the original or of the copy is changed in place *)

ArrayFields ==
    <<"times", "n_agents", "viz_types", "unique_ids", "positions", "radii",
      "rotations", "n_subpoints", "subpoints">>

\* the number of axes of an array field
FieldDepth(field) ==
    IF field \in {"times", "n_agents"} THEN 1
    ELSE IF field \in {"positions", "rotations"} THEN 3
    ELSE 2

\* An AgentData as its constructor stores it: the arrays of the model a at
\* addresses of their own, then the rows of types (one row shared by every
\* timestep when aliased, as in types = [row] * steps), the list of rows
\* and the type_ids array if there is one.
Allocate(a, aliased) ==
    LET arrays == [k \in 1..Len(ArrayFields) |-> a[ArrayFields[k]]]
        base == Len(arrays)
        rows == IF aliased THEN <<a.types[1]>> ELSE a.types
        row_refs == [t \in 1..Len(a.types) |->
                        IF aliased THEN base + 1 ELSE base + t]
        h1 == arrays \o rows \o <<row_refs>>
        h2 == IF IsNone(a.type_ids) THEN h1
              ELSE Append(h1, Get(a.type_ids))
    IN  [heap |-> h2,
         value |-> AgentData(1, 2, 3, 4, Len(h1), 5, 6, Some(7), Some(8),
                             Some(9), a.draw_fiber_points,
                             IF IsNone(a.type_ids) THEN None
                             ELSE Some(Len(h2)))]

CanAlias(a) ==
    /\ Len(a.types) > 1
    /\ \A t \in 1..Len(a.types) : a.types[t] = a.types[1]

\* the models to copy: with type IDs and without
CopyModels ==
    LET with_ids == {MkCodecModel(frames, 1) :
                        frames \in {<<>>}
                            \cup Trajectories(SeqsUpTo(CodecAgents, MaxAgents))}
    IN  with_ids \cup {[a EXCEPT !.type_ids = None] : a \in with_ids}

\* what the object obj holds, read through the heap h
ViewOf(h, obj) ==
    [ times |-> h[obj.times],
      n_agents |-> h[obj.n_agents],
      viz_types |-> h[obj.viz_types],
      unique_ids |-> h[obj.unique_ids],
      types |-> [t \in 1..Len(h[obj.types]) |-> h[h[obj.types][t]]],
      positions |-> h[obj.positions],
      radii |-> h[obj.radii],
      rotations |-> h[obj.rotations],
      n_subpoints |-> h[obj.n_subpoints],
      subpoints |-> h[obj.subpoints],
      draw_fiber_points |-> obj.draw_fiber_points,
      type_ids |-> IF IsNone(obj.type_ids) THEN None
                   ELSE Some(h[Get(obj.type_ids)]),
      type_mapping |-> obj.type_mapping ]

InitCopy ==
    /\ pc = "copy"
    /\ new_agents = None
    /\ buffer_data = None
    /\ result = NoResult
    /\ pre = None
    /\ plan = None
    /\ args = [type_names |-> <<>>, type_ids |-> None,
               type_mapping |-> EmptyDict]
    /\ copied = None
    /\ cameras = <<>>
    /\ \E a \in CopyModels, aliased \in BOOLEAN, cached \in BOOLEAN :
        /\ aliased => CanAlias(a)
        /\ heap = Allocate(a, aliased).heap
        /\ self = IF cached
                  THEN [Allocate(a, aliased).value EXCEPT
                            !.type_mapping = WithTypeMapping(a).type_mapping]
                  ELSE Allocate(a, aliased).value

\* copied = copy.deepcopy(self)
DeepCopy ==
    /\ pc = "copy"
    /\ LET r == deepcopy(heap, self) IN
        /\ heap' = r.heap
        /\ copied' = Some(r.value)
    /\ result' = Outcome("__deepcopy__", [error |-> NoError, value |-> None])
    /\ pre' = Operands
    /\ pc' = "copied"
    /\ UNCHANGED <<self, new_agents, buffer_data, plan, args, cameras>>

Object(target) == IF target = "self" THEN self ELSE Get(copied)

\* every scalar of an array with `depth` axes set to x
RECURSIVE Filled(_, _, _)
Filled(v, depth, x) ==
    IF depth = 0 THEN x
    ELSE [k \in 1..Len(v) |-> Filled(v[k], depth - 1, x)]

Written(target, what) ==
    [op |-> "write", status |-> "ok", error |-> NoError,
     value |-> Some([target |-> target, what |-> what])]

\* target.<field>.fill(7): an array of the original or the copy is
\* overwritten in place
FillArray ==
    /\ pc = "copied"
    /\ \E target \in {"self", "copy"}, k \in 1..Len(ArrayFields) :
        LET field == ArrayFields[k]
            addr == Object(target)[field]
        IN  /\ heap' = [heap EXCEPT ![addr] =
                        IF field = "subpoints"
                        THEN [@ EXCEPT !.data = Filled(@, Len(heap[addr].shape), 7)]
                        ELSE Filled(@, FieldDepth(field), 7)]
            /\ result' = Written(target, field)
    /\ pre' = Operands
    /\ pc' = "done"
    /\ UNCHANGED <<self, new_agents, buffer_data, plan, args, copied, cameras>>

\* target.type_ids.fill(7)
FillTypeIds ==
    /\ pc = "copied"
    /\ \E target \in {"self", "copy"} :
        /\ ~IsNone(Object(target).type_ids)
        /\ heap' = [heap EXCEPT ![Get(Object(target).type_ids)] =
                        Filled(@, 2, 7)]
        /\ result' = Written(target, "type_ids")
    /\ pre' = Operands
    /\ pc' = "done"
    /\ UNCHANGED <<self, new_agents, buffer_data, plan, args, copied, cameras>>

\* target.types[t].append("C"): a row of names is changed in place
AppendName ==
    /\ pc = "copied"
    /\ \E target \in {"self", "copy"} :
        \E t \in 1..Len(heap[Object(target).types]) :
            /\ heap' = [heap EXCEPT ![heap[Object(target).types][t]] =
                            Append(@, "C")]
            /\ result' = Written(target, "types[t]")
    /\ pre' = Operands
    /\ pc' = "done"
    /\ UNCHANGED <<self, new_agents, buffer_data, plan, args, copied, cameras>>

\* target.types.append([]): the list of rows is changed in place
AppendRow ==
    /\ pc = "copied"
    /\ \E target \in {"self", "copy"} :
        /\ heap' = Append([heap EXCEPT ![Object(target).types] =
                                Append(@, Len(heap) + 1)], <<>>)
        /\ result' = Written(target, "types")
    /\ pre' = Operands
    /\ pc' = "done"
    /\ UNCHANGED <<self, new_agents, buffer_data, plan, args, copied, cameras>>

NextCopy == DeepCopy \/ FillArray \/ FillTypeIds \/ AppendName \/ AppendRow

SpecCopy == InitCopy /\ [][NextCopy]_vars

----------------------------------------------------------------------------
(* Properties of the deep copy *)

\* the addresses an object reaches
Reaches(h, obj) ==
    {obj[ArrayFields[k]] : k \in 1..Len(ArrayFields)}
    \cup {obj.types} \cup Range(h[obj.types]) \cup Range(obj.type_ids)

\* the arrays, the name lists and the flag an object holds
Contents(h, obj) == [ViewOf(h, obj) EXCEPT !.type_mapping = None]

\* C20: the copy holds what the original holds when it is made, shares no
\* array and no name list with it, and has no type_ids exactly when the
\* original has none; an in-place change to an array or name list of one
\* of the two objects leaves everything the other holds as it was.
C20_DeepCopyIndependent ==
    /\ Called("__deepcopy__") =>
        /\ Contents(heap, Get(copied)) = Contents(heap, self)
        /\ ViewOf(heap, self) = ViewOf(Get(pre).heap, self)
        /\ Reaches(heap, Get(copied)) \cap Reaches(heap, self) = {}
        /\ IsNone(Get(copied).type_ids) <=> IsNone(self.type_ids)
    /\ Called("write") =>
        /\ Get(result.value).target = "self" =>
            ViewOf(heap, Get(copied)) = ViewOf(Get(pre).heap, Get(copied))
        /\ Get(result.value).target = "copy" =>
            ViewOf(heap, self) = ViewOf(Get(pre).heap, self)

\* a name was appended to a row of the original, which has no type_ids: the
\* original shows it, the copy does not
C20_Witness ==
    /\ Called("write")
    /\ Get(result.value) = [target |-> "self", what |-> "types[t]"]
    /\ IsNone(self.type_ids)
    /\ IsNone(Get(copied).type_ids)
    /\ Len(heap[self.types]) = 2
    /\ ViewOf(heap, self).types # ViewOf(Get(pre).heap, self).types
    /\ ViewOf(heap, Get(copied)).types = ViewOf(Get(pre).heap, self).types

----------------------------------------------------------------------------
(* The life of an AgentData: constructed and merged, encoded and decoded,
   or copied and changed in place *)

InitModel == InitMerge \/ InitCodec \/ InitCopy

NextModel == NextMerge \/ NextCodec \/ NextCopy

SpecModel == InitModel /\ [][NextModel]_vars

\* C21: type_mapping is None on a constructed model, on the model
\* from_buffer_data returns and on a deep copy, and after every successful
\* append_agents, whatever it was before the merge.
C21_TypeMappingNeverStale ==
    /\ pc = "encode" => IsNone(self.type_mapping)
    /\ (Called("from_buffer_data") /\ result.status = "ok")
            => IsNone(Get(result.value).type_mapping)
    /\ ~IsNone(copied) => IsNone(Get(copied).type_mapping)
    /\ Merged => IsNone(self.type_mapping)

\* a successful merge into a receiver that carried a name table
C21_Witness ==
    /\ Merged
    /\ ~IsNone(Base0.type_mapping)
    /\ IsNone(self.type_mapping)
    /\ ~IsNone(self.type_ids)

----------------------------------------------------------------------------
(* The filter pipeline: EveryNthTimestepFilter, TransformSpatialAxesFilter
   and the export of the filtered trajectory *)

MaxFilterSteps == 3
MaxStride == 3

InvalidFilterParameterError ==
    [type |-> "InvalidFilterParameterError", args |-> <<>>]
InvalidAxisMappingError == [type |-> "InvalidAxisMappingError", args |-> <<>>]

\* what the filter tests expect of the exported trajectory; a time is given
\* in units of the input's timeStepSize 0.05, a coordinate in hundredths
test_every_nth_timestep_filter_wrong ==
    [ n |-> 2, totalSteps |-> 2, bundleSize |-> 2,
      frames |-> <<[frameNumber |-> 0, time |-> 0],
                   [frameNumber |-> 2, time |-> 2]>> ]

test_every_nth_timestep_filter ==
    [ n |-> 2, totalSteps |-> 2, bundleSize |-> 2,
      frames |-> <<[frameNumber |-> 0, time |-> 0],
                   [frameNumber |-> 1, time |-> 2]>> ]

test_transform_spatial_axes_filter_wrong ==
    [ axes_mapping |-> <<"+X", "-Z", "+Y">>,
      totalSteps |-> 3, bundleSize |-> 3,
      first_point |-> <<3693, 1678, 0 - 3680>> ]

test_transform_spatial_axes_filter ==
    [ axes_mapping |-> <<"+X", "-Z", "+Y">>,
      totalSteps |-> 3, bundleSize |-> 3,
      first_point |-> <<3693, 0 - 1678, 3680>> ]

\* the original indices 0, n, 2n, ... below total_steps, as model indices
KeptSteps(total_steps, n) ==
    [k \in 1..((total_steps + n - 1) \div n) |-> (k - 1) * n + 1]

\* the result is [error, value]: value is Some(AgentData) with the kept
\* timesteps of every per-timestep array
EveryNthTimestepFilter(a, n) ==
    IF n < 1 THEN [error |-> InvalidFilterParameterError, value |-> None]
    ELSE
    LET kept == KeptSteps(Len(a.times), n)
        pick(arr) == [k \in 1..Len(kept) |-> arr[kept[k]]]
    IN  [error |-> NoError,
         value |-> Some(
            [a EXCEPT
                !.times = pick(@),
                !.n_agents = pick(@),
                !.viz_types = pick(@),
                !.unique_ids = pick(@),
                !.types = pick(@),
                !.positions = pick(@),
                !.radii = pick(@),
                !.rotations = pick(@),
                !.n_subpoints = pick(@),
                !.subpoints = NdArray([@.shape EXCEPT ![1] = Len(kept)],
                                      pick(@.data)),
                !.type_ids = IF IsNone(@) THEN None ELSE Some(pick(Get(@)))])]

AxisNames == {"+X", "-X", "+Y", "-Y", "+Z", "-Z"}

AxisIndex(axis) ==
    IF axis \in {"+X", "-X"} THEN 1 ELSE IF axis \in {"+Y", "-Y"} THEN 2 ELSE 3

AxisSign(axis) == IF axis \in {"+X", "+Y", "+Z"} THEN 1 ELSE 0 - 1

\* each source axis is used exactly once
IsSignedPermutation(axes_mapping) ==
    /\ Len(axes_mapping) = 3
    /\ \A d \in 1..3 : axes_mapping[d] \in AxisNames
    /\ {AxisIndex(axes_mapping[d]) : d \in 1..3} = {1, 2, 3}

\* output axis d takes the signed source axis axes_mapping[d]
TransformCoordinate(axes_mapping, point) ==
    [d \in 1..3 |->
        AxisSign(axes_mapping[d]) * point[AxisIndex(axes_mapping[d])]]

\* the result is [error, value]: value is Some(AgentData) with every
\* position, rotation and subpoint transformed
TransformSpatialAxesFilter(a, axes_mapping) ==
    IF ~IsSignedPermutation(axes_mapping)
    THEN [error |-> InvalidAxisMappingError, value |-> None]
    ELSE
    LET each(arr) == [t \in 1..Len(arr) |-> [n \in 1..Len(arr[t]) |->
                        TransformCoordinate(axes_mapping, arr[t][n])]]
    IN  [error |-> NoError,
         value |-> Some(
            [a EXCEPT
                !.positions = each(@),
                !.rotations = each(@),
                !.subpoints = NdArray(@.shape,
                    [t \in 1..Len(@.data) |-> [n \in 1..Len(@.data[t]) |->
                        [q \in 1..Len(@.data[t][n]) |->
                            TransformCoordinate(axes_mapping,
                                                @.data[t][n][q])]]])])]

\* the exported envelope: the encoded buffers with the counts of frames
read_custom_data(a) ==
    [ trajectoryInfo |->
        [totalSteps |-> Len(a.times),
         typeMapping |-> TypeMapping(encode(a))],
      spatialData |->
        [bundleStart |-> 0,
         bundleSize |-> Len(a.times),
         bundleData |-> BundleData(encode(a))] ]

----------------------------------------------------------------------------
(* The filter pipeline as a state machine: a filter is applied to a
   trajectory and the filtered trajectory is exported *)

\* one agent per slot, told apart by its number of points
FilterAgents == [type : {"A"}, nsub : 0..MaxSubpoints]

FilterModels ==
    UNION {UNION {
        {MkCodecModel(FramesOf(roster, steps, leave), 1) :
            roster \in SeqsUpTo(FilterAgents, MaxAgents)} :
        leave \in 1..(steps + 1)} : steps \in 0..MaxFilterSteps}

\* the trajectory of the filter tests: 3 timesteps, the first agent a fiber
\* whose first point is (36.93, 36.8, 16.78)
TestTrajectory ==
    LET a == MkCodecModel([t \in 1..3 |-> <<[type |-> "A", nsub |-> 1]>>], 1)
    IN  [a EXCEPT !.subpoints.data[1][1][1] = <<3693, 3680, 1678>>]

AxesMappings ==
    { <<"+X", "+Y", "+Z">>, <<"+X", "-Z", "+Y">>, <<"+X", "+Z", "-Y">>,
      <<"+Y", "+Z", "+X">>, <<"-X", "-Y", "-Z">>, <<"-Y", "+X", "+Z">>,
      <<"+X", "+X", "+Y">>, <<"+X", "-X", "+Z">> }

Filters ==
    {[filter |-> "EveryNthTimestepFilter", n |-> n] : n \in 0..MaxStride}
    \cup {[filter |-> "TransformSpatialAxesFilter", axes_mapping |-> m] :
                m \in AxesMappings}

InitFilter ==
    /\ pc = "filter"
    /\ self \in FilterModels \cup {TestTrajectory}
    /\ args \in Filters
    /\ new_agents = None
    /\ buffer_data = None
    /\ result = NoResult
    /\ pre = None
    /\ plan = None
    /\ heap = <<>>
    /\ copied = None
    /\ cameras = <<>>

\* filtered_data = converter.filter_data([EveryNthTimestepFilter(n)])
ApplyEveryNthTimestepFilter ==
    /\ pc = "filter"
    /\ args.filter = "EveryNthTimestepFilter"
    /\ LET r == EveryNthTimestepFilter(self, args.n) IN
        /\ result' = Outcome("EveryNthTimestepFilter", r)
        /\ pc' = IF r.error = NoError THEN "export" ELSE "done"
    /\ pre' = Operands
    /\ UNCHANGED <<self, new_agents, buffer_data, plan, others>>

\* filtered_data = converter.filter_data([TransformSpatialAxesFilter(m)])
ApplyTransformSpatialAxesFilter ==
    /\ pc = "filter"
    /\ args.filter = "TransformSpatialAxesFilter"
    /\ LET r == TransformSpatialAxesFilter(self, args.axes_mapping) IN
        /\ result' = Outcome("TransformSpatialAxesFilter", r)
        /\ pc' = IF r.error = NoError THEN "export" ELSE "done"
    /\ pre' = Operands
    /\ UNCHANGED <<self, new_agents, buffer_data, plan, others>>

\* buffer_data = converter._read_custom_data(filtered_data)
ReadCustomData ==
    /\ pc = "export"
    /\ buffer_data' = Some(read_custom_data(Get(result.value)))
    /\ pc' = "done"
    /\ UNCHANGED <<self, new_agents, result, pre, plan, others>>

NextFilter ==
    \/ ApplyEveryNthTimestepFilter
    \/ ApplyTransformSpatialAxesFilter
    \/ ReadCustomData

SpecFilter == InitFilter /\ [][NextFilter]_vars

----------------------------------------------------------------------------
(* Properties of the filters *)

Filtered == Get(result.value)
Exported == Get(buffer_data)

\* the timestep k of the model f holds what the timestep j of the model a
\* holds, in every per-timestep array
SameTimestep(f, k, a, j) ==
    /\ f.times[k] = a.times[j]
    /\ f.n_agents[k] = a.n_agents[j]
    /\ f.viz_types[k] = a.viz_types[j]
    /\ f.unique_ids[k] = a.unique_ids[j]
    /\ f.types[k] = a.types[j]
    /\ f.positions[k] = a.positions[j]
    /\ f.rotations[k] = a.rotations[j]
    /\ f.radii[k] = a.radii[j]
    /\ f.n_subpoints[k] = a.n_subpoints[j]
    /\ f.subpoints.data[k] = a.subpoints.data[j]
    /\ Get(f.type_ids)[k] = Get(a.type_ids)[j]

\* the number of original indices 0, n, 2n, ... below total_steps
KeptCount(total_steps, n) ==
    Cardinality({i \in 0..(total_steps - 1) : i % n = 0})

----------------------------------------------------------------------------
(* CameraData: instances refer to their arrays by heap address; the caller
   constructs instances, deep copies them and changes an array in place *)

MaxCameras == 3

CameraFields == {"position", "look_at_position", "up_vector"}

\* the default values of __init__'s parameters; the three arrays are created
\* once, when the def statement is executed, and live at these addresses
DefaultPosition == 1
DefaultLookAtPosition == 2
DefaultUpVector == 3
DefaultFovDegrees == 50
DefaultArrays == << <<0, 0, 120>>, <<0, 0, 0>>, <<0, 1, 0>> >>

\* __init__ stores its arguments as given; an argument is the address of an
\* array, the default's when the caller leaves it out (None)
CameraData(position, look_at_position, up_vector, fov_degrees) ==
    [ position |->
        IF IsNone(position) THEN DefaultPosition ELSE Get(position),
      look_at_position |->
        IF IsNone(look_at_position) THEN DefaultLookAtPosition
        ELSE Get(look_at_position),
      up_vector |->
        IF IsNone(up_vector) THEN DefaultUpVector ELSE Get(up_vector),
      fov_degrees |->
        IF IsNone(fov_degrees) THEN DefaultFovDegrees ELSE Get(fov_degrees) ]

\* __deepcopy__: np.copy of the three arrays, passed to the constructor with
\* the same fov_degrees; the result is [heap, value]
camera_deepcopy(h, camera) ==
    LET h1 == NpCopy(h, camera.position)
        h2 == NpCopy(h1.heap, camera.look_at_position)
        h3 == NpCopy(h2.heap, camera.up_vector)
    IN  [heap |-> h3.heap,
         value |-> CameraData(Some(h1.ref), Some(h2.ref), Some(h3.ref),
                              Some(camera.fov_degrees))]

\* the arrays a caller passes: none, the position alone, or all three with a
\* field of view
CallerVector == <<1, 2, 3>>
CameraArguments ==
    { [position |-> FALSE, others |-> FALSE, fov_degrees |-> None],
      [position |-> TRUE, others |-> FALSE, fov_degrees |-> None],
      [position |-> TRUE, others |-> TRUE, fov_degrees |-> Some(90)] }

\* the values written in place
WrittenValues == {7}

InitCamera ==
    /\ pc = "camera"
    /\ self = None
    /\ new_agents = None
    /\ buffer_data = None
    /\ result = NoResult
    /\ pre = None
    /\ plan = None
    /\ args = [type_names |-> <<>>, type_ids |-> None,
               type_mapping |-> EmptyDict]
    /\ copied = None
    /\ heap = DefaultArrays
    /\ cameras = <<>>

\* cameras.append(CameraData()) or CameraData(position=np.array(...), ...)
NewCamera ==
    /\ pc \in {"camera", "written"}
    /\ Len(cameras) < MaxCameras
    /\ \E a \in CameraArguments :
        LET n == Len(heap)
            h == IF a.others
                 THEN heap \o <<CallerVector, CallerVector, CallerVector>>
                 ELSE IF a.position THEN Append(heap, CallerVector)
                 ELSE heap
            camera_args ==
                [ position |-> IF a.position THEN Some(n + 1) ELSE None,
                  look_at_position |-> IF a.others THEN Some(n + 2) ELSE None,
                  up_vector |-> IF a.others THEN Some(n + 3) ELSE None,
                  fov_degrees |-> a.fov_degrees ]
            camera ==
                CameraData(camera_args.position, camera_args.look_at_position,
                           camera_args.up_vector, camera_args.fov_degrees)
        IN  /\ heap' = h
            /\ cameras' = Append(cameras, camera)
            /\ result' = [op |-> "__init__", status |-> "ok",
                          error |-> NoError,
                          value |-> Some([defaults |->
                              {field \in CameraFields :
                                  IsNone(camera_args[field])}])]
    /\ pre' = Operands
    /\ UNCHANGED <<pc, self, new_agents, buffer_data, plan, args, copied>>

\* cameras.append(copy.deepcopy(cameras[c]))
DeepCopyCamera ==
    /\ pc \in {"camera", "written"}
    /\ Len(cameras) < MaxCameras
    /\ \E c \in 1..Len(cameras) :
        LET r == camera_deepcopy(heap, cameras[c]) IN
        /\ heap' = r.heap
        /\ cameras' = Append(cameras, r.value)
        /\ result' = [op |-> "__deepcopy__", status |-> "ok",
                      error |-> NoError, value |-> Some([source |-> c])]
    /\ pre' = Operands
    /\ UNCHANGED <<pc, self, new_agents, buffer_data, plan, args, copied>>

\* cameras[c].position[k] = v, or the same on another array of the instance
WriteCameraArray ==
    /\ pc = "camera"
    /\ \E c \in 1..Len(cameras), field \in CameraFields, k \in 1..3 :
      \E v \in WrittenValues :
        /\ heap' = [heap EXCEPT ![cameras[c][field]][k] = v]
        /\ result' = [op |-> "write", status |-> "ok", error |-> NoError,
                      value |-> Some([camera |-> c, field |-> field])]
    /\ pre' = Operands
    /\ pc' = "written"
    /\ UNCHANGED <<self, new_agents, buffer_data, plan, args, copied, cameras>>

NextCamera == NewCamera \/ DeepCopyCamera \/ WriteCameraArray

SpecCamera == InitCamera /\ [][NextCamera]_vars

----------------------------------------------------------------------------
(* Properties of CameraData *)

\* what an instance shows: the contents of its arrays and its field of view
CameraView(h, camera) ==
    [ position |-> h[camera.position],
      look_at_position |-> h[camera.look_at_position],
      up_vector |-> h[camera.up_vector],
      fov_degrees |-> camera.fov_degrees ]

CameraArrays(camera) == {camera[field] : field \in CameraFields}

DefaultView ==
    [ position |-> <<0, 0, 120>>, look_at_position |-> <<0, 0, 0>>,
      up_vector |-> <<0, 1, 0>>, fov_degrees |-> 50 ]

\* C29: CameraData instances are independent: an in-place change to an array
\* of one instance leaves what every other instance shows as it was, an
\* instance constructed with default arguments shows the defaults whatever
\* was written before, and a deep copy shows what its source shows at copy
\* time and has its own arrays.
C29_CamerasIndependent ==
    /\ Called("write") =>
        \A d \in 1..Len(cameras) :
            d # Get(result.value).camera =>
                CameraView(heap, cameras[d])
                    = CameraView(Get(pre).heap, cameras[d])
    /\ Called("__init__") =>
        \A field \in Get(result.value).defaults :
            CameraView(heap, cameras[Len(cameras)])[field]
                = DefaultView[field]
    /\ Called("__deepcopy__") =>
        LET copy == cameras[Len(cameras)]
            source == cameras[Get(result.value).source]
        IN  /\ CameraView(heap, copy) = CameraView(heap, source)
            /\ \A d \in 1..(Len(cameras) - 1) :
                    CameraArrays(copy) \cap CameraArrays(cameras[d]) = {}

----------------------------------------------------------------------------
(* ScatterPlotReader.read *)

MaxTraces == 2
MaxTraceLen == 2

\* ndarray.tolist() of a 1-D array: the list of its values
ToList(a) == a.data

ScatterDataError(ytrace_name) ==
    [type |-> "DataError", args |-> <<ytrace_name>>]

\* data["render_mode"] if "render_mode" in data else "markers"; the key is
\* absent when render_mode is None
RenderMode(data) ==
    IF IsNone(data.render_mode) THEN "markers" ELSE Get(data.render_mode)

\* a loop body that appends the entry without comparing the lengths
ReadStepUnchecked(data, st, ytrace) ==
    [st EXCEPT !.data = Append(@,
        [ name |-> ytrace.name,
          type |-> "scatter",
          x |-> ToList(data.xtrace),
          y |-> ToList(ytrace.values),
          mode |-> RenderMode(data) ])]

\* one iteration of the loop over data["ytraces"]; st = [data, error]
ReadStep(data, st, ytrace) ==
    IF Len(ytrace.values.data) # Len(data.xtrace.data)
    THEN [st EXCEPT !.error = ScatterDataError(ytrace.name)]
    ELSE [st EXCEPT !.data = Append(@,
            [ name |-> ytrace.name,
              type |-> "scatter",
              x |-> ToList(data.xtrace),
              y |-> ToList(ytrace.values),
              mode |-> RenderMode(data) ])]

\* the loop from entry k of data["ytraces"] on, left when an error is raised
RECURSIVE ReadLoop(_, _, _)
ReadLoop(data, k, st) ==
    IF k > Len(data.ytraces) \/ st.error # NoError THEN st
    ELSE ReadLoop(data, k + 1, ReadStep(data, st, data.ytraces[k]))

\* the result is [error, value]: value is Some(simularium_data) when no
\* error was raised
read(data) ==
    LET st == ReadLoop(data, 1, [data |-> <<>>, error |-> NoError]) IN
    IF st.error # NoError THEN [error |-> st.error, value |-> None]
    ELSE [error |-> NoError,
          value |-> Some(
            [ layout |-> [ title |-> data.title,
                           xaxis |-> [title |-> data.xaxis_title],
                           yaxis |-> [title |-> data.yaxis_title] ],
              data |-> st.data ])]

\* The inputs: a dict is the sequence of its items in iteration order, a
\* trace is a 1-D array; the x values are 1, 2, ... and the y values of a
\* trace are its name's number of tens plus the index.
TraceNames == <<"a", "b", "c">>
XTrace(len) == NdArray(<<len>>, [k \in 1..len |-> k])
YTrace(name, len) ==
    NdArray(<<len>>, [k \in 1..len |-> 10 * name + k])

YTraceDicts ==
    {[k \in 1..Len(items) |->
        [name |-> TraceNames[items[k][1]],
         values |-> YTrace(items[k][1], items[k][2])]] :
        items \in {q \in SeqsUpTo((1..Len(TraceNames)) \X (0..MaxTraceLen),
                                  MaxTraces) :
                    \A i, j \in DOMAIN q : i # j => q[i][1] # q[j][1]}}

ScatterPlotInputs ==
    [ title : {"plot"},
      xaxis_title : {"time"},
      yaxis_title : {"count"},
      xtrace : {XTrace(len) : len \in 0..MaxTraceLen},
      ytraces : YTraceDicts,
      render_mode : {None, Some("lines"), Some("markers")} ]

InitScatter ==
    /\ pc = "read"
    /\ self = None
    /\ new_agents = None
    /\ buffer_data = None
    /\ result = NoResult
    /\ pre = None
    /\ plan = None
    /\ heap = <<>>
    /\ copied = None
    /\ cameras = <<>>
    /\ args \in ScatterPlotInputs

\* result = ScatterPlotReader().read(data)
Read ==
    /\ pc = "read"
    /\ result' = Outcome("read", read(args))
    /\ pre' = Operands
    /\ pc' = "done"
    /\ UNCHANGED <<self, new_agents, buffer_data, plan, others>>

NextScatter == Read

SpecScatter == InitScatter /\ [][NextScatter]_vars

----------------------------------------------------------------------------
(* Properties of ScatterPlotReader.read *)

SomeLengthDiffers(data) ==
    \E k \in 1..Len(data.ytraces) :
        data.ytraces[k].values.shape[1] # data.xtrace.shape[1]

\* C30: read raises DataError and returns nothing whenever some y-trace has
\* a length different from the x-trace; otherwise it returns one entry of
\* type "scatter" per y-trace, in the iteration order of the y-traces, with
\* the trace's name, the x-trace as x, the y-trace as y, and as mode the
\* input's render_mode, or "markers" when the input has none.
C30_ScatterEntries ==
    Called("read") =>
        IF SomeLengthDiffers(args)
        THEN /\ result.status = "raised"
             /\ result.error.type = "DataError"
             /\ IsNone(result.value)
        ELSE /\ result.status = "ok"
             /\ LET entries == Get(result.value).data IN
                /\ Len(entries) = Len(args.ytraces)
                /\ \A k \in 1..Len(args.ytraces) :
                    /\ entries[k].type = "scatter"
                    /\ entries[k].name = args.ytraces[k].name
                    /\ entries[k].x = [i \in 1..args.xtrace.shape[1] |->
                                            args.xtrace.data[i]]
                    /\ entries[k].y = [i \in 1..args.xtrace.shape[1] |->
                                            args.ytraces[k].values.data[i]]
                    /\ entries[k].mode =
                        IF args.render_mode = None THEN "markers"
                        ELSE Get(args.render_mode)

\* two y-traces of the x-trace's length, "b" before "a", read without a
\* render_mode
C30_Witness ==
    /\ Called("read")
    /\ result.status = "ok"
    /\ args.render_mode = None
    /\ args.xtrace.shape[1] = 2
    /\ Len(args.ytraces) = 2
    /\ args.ytraces[1].name = "b"
    /\ Get(result.value).data[1].name = "b"
    /\ Get(result.value).data[2].mode = "markers"

====
